---- MODULE Spec2Model ----
(***************************************************************************)
(* Tides of the Deep: the pure combat / progression engine                 *)
(* (src/src/game/engine.ts) as a state machine over one game snapshot.     *)
(*                                                                         *)
(* Every exported engine function is an operator from a snapshot (and its  *)
(* arguments) to a snapshot; every action of the next-state relation       *)
(* replaces the snapshot by the result of one call.  Fractions of the      *)
(* source (0.9, 0.35, 1.22 ...) are exact rationals [n, d]; Math.round,    *)
(* Math.floor and Math.ceil are computed on them, and the few products     *)
(* whose double-precision value rounds differently are listed where used.  *)
(***************************************************************************)
EXTENDS Integers, Sequences, FiniteSets, TLC

VARIABLES state

vars == <<state>>

(***************************************************************************)
(* Bounds of the exploration (not program constants).                      *)
(***************************************************************************)
\* grantXp is examined with every amount up to MaxXp
MaxXp == 50
\* applyAction / useItem are explored with every input while combat.turn < MaxTurn
MaxTurn == 3
\* beyond MaxTurn a fight is only continued with the StrainInputs, up to this turn
MaxLongTurn == 14
\* fights are only continued while player.level < MaxLevel
MaxLevel == 2
\* advanceContractAfterFight is only explored while currency < MaxCurrency
MaxCurrency == 4
\* ... and while the contract counts fewer than MaxFightsWon fights as won
MaxFightsWon == 2
\* buyFromShop is only explored while every inventory count < MaxCount
MaxCount == 2
\* the set-up calls are explored while fewer than MaxSetup aspects of the run
\* (stats, skills, rig mods, currency, contract, region) differ from a new run;
\* a contract is started with at most MaxSetup of them
MaxSetup == 1

(***************************************************************************)
(* Arithmetic: JS numbers as exact rationals.                              *)
(***************************************************************************)
Min(a, b) == IF a <= b THEN a ELSE b

Max(a, b) == IF a >= b THEN a ELSE b

Abs(a) == IF a < 0 THEN -a ELSE a

\* clamp(v, min, max) = Math.max(min, Math.min(max, v))
clamp(v, lo, hi) == Max(lo, Min(hi, v))

RECURSIVE GCD(_, _)
GCD(a, b) == IF b = 0 THEN a ELSE GCD(b, a % b)

\* the rational n/d (d > 0) in lowest terms
R(n, d) == LET g == GCD(Abs(n), d) IN [n |-> n \div g, d |-> d \div g]

RMul(a, b) == R(a.n * b.n, a.d * b.d)

RAdd(a, b) == R(a.n * b.d + b.n * a.d, a.d * b.d)

RLeq(a, b) == a.n * b.d <= b.n * a.d

RMax(a, b) == IF RLeq(b, a) THEN a ELSE b

RMin(a, b) == IF RLeq(a, b) THEN a ELSE b

RClamp(v, lo, hi) == RMax(lo, RMin(hi, v))

\* Math.floor
RFloor(a) == a.n \div a.d

\* Math.ceil
RCeil(a) == -((-a.n) \div a.d)

\* Math.round: the nearest integer, halves rounded up (towards +infinity)
RRound(a) == (2 * a.n + a.d) \div (2 * a.d)

RECURSIVE Pow(_, _)
Pow(b, e) == IF e <= 0 THEN 1 ELSE b * Pow(b, e - 1)

(***************************************************************************)
(* Arithmetic: JS numbers as IEEE 754 doubles.  A product or sum of        *)
(* fractions is computed by the engine in double arithmetic, each          *)
(* operation rounded to 53 significant bits (to nearest, ties to even), so *)
(* a value whose exact result is a half can come out just below it.        *)
(* Naturals beyond the machine integer are sequences of digits, lowest      *)
(* first.                                                                  *)
(***************************************************************************)
\* the base of a digit: 2^15, so that a product of two digits is an integer
Base == 32768

BDigit(a, i) == IF i >= 1 /\ i <= Len(a) THEN a[i] ELSE 0

\* a * Base^q
BShlDigits(a, q) == IF a = <<>> \/ q <= 0 THEN a ELSE [i \in 1..q |-> 0] \o a

\* 2^k for k < 15
Pow2(k) == <<1, 2, 4, 8, 16, 32, 64, 128, 256, 512, 1024, 2048, 4096, 8192, 16384>>[k + 1]

\* bit i of a, the lowest being bit 1
BBit(a, i) == IF i < 1 THEN 0 ELSE (BDigit(a, (i - 1) \div 15 + 1) \div Pow2((i - 1) % 15)) % 2

\* whether one of the k lowest bits of a is set
BLowSet(a, k) ==
  IF k <= 0 THEN FALSE
  ELSE \/ \E i \in 1..(k \div 15) : BDigit(a, i) # 0
       \/ BDigit(a, k \div 15 + 1) % Pow2(k % 15) # 0

\* the number of bits of a
BBits(a) ==
  IF a = <<>> THEN 0
  ELSE 15 * (Len(a) - 1) + Cardinality({k \in 0..14 : Pow2(k) <= a[Len(a)]})

\* the double (-1)^neg * m * 2^e; zero has no bits
Dbl(neg, m, e) ==
  IF m = <<>> THEN [neg |-> FALSE, m |-> <<>>, e |-> 0] ELSE [neg |-> neg, m |-> m, e |-> e]

\* the fractions the engine writes as literals, and those of the content
Literals ==
  {<<n, 10>> : n \in {2, 4, 6, 7, 8, 9, 12, 25}}
    \cup {<<n, 100>> : n \in {1, 2, 3, 4, 5, 8, 12, 15, 25, 28, 35, 65, 72, 95, 115, 125, 135}}
    \cup {<<n, 1000>> : n \in {4, 6, 8, 12, 18, 35, 100, 250, 800, 3000}}

\* The operations that recur on the digits or on an expression, and those on
\* doubles, are the cases of one operator: Arith(op, ...) is the operation
\* named op on its operands.
RECURSIVE Arith(_, _, _, _, _)

\* without its high zero digits
BTrim(a) == Arith("BTrim", a, 0, 0, 0)

\* the digits of an integer n >= 0, and back
BFromInt(n) == Arith("BFromInt", n, 0, 0, 0)

BToInt(a) == Arith("BToInt", a, 0, 0, 0)

BAdd(a, b) == Arith("BAddFrom", a, b, 1, 0)

\* a - b, for a >= b
BSub(a, b) == BTrim(Arith("BSubFrom", a, b, 1, 0))

BLess(a, b) ==
  IF Len(a) # Len(b) THEN Len(a) < Len(b) ELSE Arith("BLessFrom", a, b, Len(a), 0)

\* a * k, for a digit k
BMulSmall(a, k) == IF k = 0 THEN <<>> ELSE Arith("BMulSmallFrom", a, k, 1, 0)

BMul(a, b) ==
  IF Len(a) < Len(b) THEN Arith("BMulFrom", b, a, 1, 0) ELSE Arith("BMulFrom", a, b, 1, 0)

\* quotient and remainder of a by d, 0 < d < Base
BDivSmall(a, d) == Arith("BDivSmall", a, d, 0, 0)

\* a * 2^k
BShl(a, k) == IF k <= 0 THEN a ELSE BShlDigits(BMulSmall(a, Pow2(k % 15)), k \div 15)

\* floor(a / 2^k)
BShr(a, k) ==
  IF k <= 0 THEN a
  ELSE IF k \div 15 >= Len(a) THEN <<>>
  ELSE BDivSmall(SubSeq(a, k \div 15 + 1, Len(a)), Pow2(k % 15)).q

\* m * 2^e rounded to 53 significant bits, to nearest, ties to even; sticky: the
\* value lies above m * 2^e, by less than 2^e
DRoundTo53(neg, m, e, sticky) == Arith("DRoundTo53", neg, m, e, sticky)

\* the double nearest to n / d: a number literal, or a number of the content
DLit(n, d) == Arith("DLit", n, d, 0, 0)

\* the doubles of the literals
DLiteral == [p \in Literals |-> DLit(p[1], p[2])]

DMul(a, b) == Arith("DMul", a, b, 0, 0)

DAdd(a, b) == Arith("DAdd", a, b, 0, 0)

\* a < b
DLess(a, b) == Arith("DLess", a, b, 0, 0)

\* the double the expression t evaluates to
DEval(t) == Arith("DEval", t, 0, 0, 0)

\* Math.round of a double: the nearest integer, halves towards +infinity
DRound(a) == Arith("DRound", a, 0, 0, 0)

Arith(op, x1, x2, x3, x4) ==
  CASE op = "BAddFrom" ->
         \* a + b from the digit i up, with the carry into it
         LET a == x1
             b == x2
             i == x3
             carry == x4
             t == BDigit(a, i) + BDigit(b, i) + carry
         IN IF i > Len(a) /\ i > Len(b) THEN (IF carry > 0 THEN <<carry>> ELSE <<>>)
            ELSE <<t % Base>> \o Arith(op, a, b, i + 1, t \div Base)
    [] op = "BMulSmallFrom" ->
         \* a * k from the digit i up, with the carry into it
         LET a == x1
             k == x2
             i == x3
             carry == x4
             t == a[i] * k + carry
         IN IF i > Len(a) THEN (IF carry > 0 THEN <<carry>> ELSE <<>>)
            ELSE <<t % Base>> \o Arith(op, a, k, i + 1, t \div Base)
    [] op = "BMulFrom" ->
         \* a times the digits i and above of b
         LET a == x1
             b == x2
             i == x3
         IN IF i > Len(b) THEN <<>>
            ELSE BAdd(BShlDigits(BMulSmall(a, b[i]), i - 1), Arith(op, a, b, i + 1, 0))
    [] op = "BDivSmallFrom" ->
         \* long division of the digits i and below of a by d, after remainder rem
         LET a == x1
             d == x2
             i == x3
             rem == x4
             t == rem * Base + a[i]
             rest == Arith(op, a, d, i - 1, t % d)
         IN IF i < 1 THEN [q |-> <<>>, rem |-> rem]
            ELSE [q |-> rest.q \o <<t \div d>>, rem |-> rest.rem]
    [] op = "BDivSmall" ->
         LET res == Arith("BDivSmallFrom", x1, x2, Len(x1), 0)
         IN [q |-> BTrim(res.q), rem |-> res.rem]
    [] op = "BSubFrom" ->
         \* a - b from the digit i up, with the borrow from it
         LET a == x1
             b == x2
             i == x3
             borrow == x4
             t == BDigit(a, i) - BDigit(b, i) - borrow
         IN IF i > Len(a) THEN <<>>
            ELSE <<t % Base>> \o Arith(op, a, b, i + 1, IF t < 0 THEN 1 ELSE 0)
    [] op = "BLessFrom" ->
         \* a < b on the digits i and below, for a and b of one length
         LET a == x1
             b == x2
             i == x3
         IN IF i < 1 THEN FALSE
            ELSE IF a[i] # b[i] THEN a[i] < b[i]
            ELSE Arith(op, a, b, i - 1, 0)
    [] op = "BTrim" ->
         IF x1 = <<>> THEN x1
         ELSE IF x1[Len(x1)] = 0 THEN Arith(op, SubSeq(x1, 1, Len(x1) - 1), 0, 0, 0)
         ELSE x1
    [] op = "BFromInt" ->
         IF x1 = 0 THEN <<>> ELSE <<x1 % Base>> \o Arith(op, x1 \div Base, 0, 0, 0)
    [] op = "BToInt" ->
         IF x1 = <<>> THEN 0 ELSE x1[1] + Base * Arith(op, Tail(x1), 0, 0, 0)
    [] op = "BLowZeros" ->
         \* the number of zero bits of a from bit i up to its lowest set bit
         IF BBit(x1, x2) = 1 THEN 0 ELSE 1 + Arith(op, x1, x2 + 1, 0, 0)
    [] op = "DRoundTo53" ->
         LET neg == x1
             m == x2
             e == x3
             sticky == x4
             drop == BBits(m) - 53
             kept == BShr(m, drop)
             up == /\ BBit(m, drop) = 1
                   /\ (sticky \/ BLowSet(m, drop - 1) \/ kept[1] % 2 = 1)
         IN IF drop <= 0 THEN Dbl(neg, m, e)
            ELSE Dbl(neg, IF up THEN BAdd(kept, <<1>>) ELSE kept, e + drop)
    [] op = "DMul" ->
         LET a == x1
             b == x2
         IN IF a.m = <<>> \/ b.m = <<>> THEN Dbl(FALSE, <<>>, 0)
            ELSE IF a.m = <<1>> /\ a.e = 0 /\ ~a.neg THEN b
            ELSE IF b.m = <<1>> /\ b.e = 0 /\ ~b.neg THEN a
            ELSE DRoundTo53(a.neg # b.neg, BMul(a.m, b.m), a.e + b.e, FALSE)
    [] op = "DAdd" ->
         LET a == x1
             b == x2
             e == Min(a.e, b.e)
             ma == BShl(a.m, a.e - e)
             mb == BShl(b.m, b.e - e)
             less == BLess(ma, mb)
         IN IF a.m = <<>> THEN b
            ELSE IF b.m = <<>> THEN a
            ELSE DRoundTo53(IF a.neg # b.neg /\ less THEN b.neg ELSE a.neg,
                            IF a.neg = b.neg THEN BAdd(ma, mb)
                            ELSE IF less THEN BSub(mb, ma) ELSE BSub(ma, mb),
                            e, FALSE)
    [] op = "DLess" ->
         LET a == x1
             b == x2
             e == Min(a.e, b.e)
             \* the places of the highest bits
             ta == BBits(a.m) + a.e
             tb == BBits(b.m) + b.e
         IN IF a.neg # b.neg THEN a.neg
            ELSE IF a.m = <<>> \/ b.m = <<>> THEN a.m = <<>> /\ b.m # <<>>
            ELSE IF ta # tb THEN (IF a.neg THEN tb < ta ELSE ta < tb)
            ELSE IF a.neg THEN BLess(BShl(b.m, b.e - e), BShl(a.m, a.e - e))
            ELSE BLess(BShl(a.m, a.e - e), BShl(b.m, b.e - e))
    [] op = "DLit" ->
         LET n == x1
             d == x2
             res == BDivSmall(BShl(BFromInt(Abs(n)), 90), d)
             a == DRoundTo53(n < 0, res.q, -90, res.rem # 0)
             \* the mantissa is kept odd
             z == Arith("BLowZeros", a.m, 1, 0, 0)
         IN IF n % d = 0 THEN Dbl(n < 0, BFromInt(Abs(n) \div d), 0)
            ELSE [neg |-> a.neg, m |-> BShr(a.m, z), e |-> a.e + z]
    [] op = "DEval" ->
         LET t == x1
             a == Arith(op, t[2], 0, 0, 0)
             b == Arith(op, t[3], 0, 0, 0)
         IN IF t[1] = "lit"
            THEN (IF <<t[2], t[3]>> \in Literals THEN DLiteral[<<t[2], t[3]>>]
                  ELSE DLit(t[2], t[3]))
            ELSE IF t[1] = "mul" THEN DMul(a, b)
            ELSE IF t[1] = "add" THEN DAdd(a, b)
            ELSE IF t[1] = "sub" THEN DAdd(a, IF b.m = <<>> THEN b ELSE [b EXCEPT !.neg = ~b.neg])
            ELSE IF t[1] = "min" THEN (IF DLess(b, a) THEN b ELSE a)
            ELSE (IF DLess(a, b) THEN b ELSE a)
    [] op = "DRound" ->
         LET a == x1
             f == -a.e
             whole == BToInt(BShr(a.m, f))
             half == BBit(a.m, f)
             below == BLowSet(a.m, f - 1)
         IN IF a.e >= 0 THEN (IF a.neg THEN -1 ELSE 1) * BToInt(BShl(a.m, a.e))
            ELSE IF a.neg THEN -(whole + (IF half = 1 /\ below THEN 1 ELSE 0))
            ELSE whole + half
    [] op = "Math.round" -> DRound(DEval(x1))

(***************************************************************************)
(* The expressions the engine computes a number by: a literal (or an       *)
(* integer of the state, or a number of the content) and the operations on *)
(* doubles.  A multiplier is carried as its exact value n / d together     *)
(* with the expression t it is computed by.  Math.round of a number is the *)
(* rounding of the exact value unless that is a half, where the double     *)
(* decides: the doubles of these expressions differ from the exact value   *)
(* by far less than the gap between a half and the nearest other value.    *)
(***************************************************************************)
Lit(n, d) == <<"lit", n, d>>

JMul(a, b) == <<"mul", a, b>>

JAdd(a, b) == <<"add", a, b>>

JSub(a, b) == <<"sub", a, b>>

JMin(a, b) == <<"min", a, b>>

JMax(a, b) == <<"max", a, b>>

\* clamp(v, min, max) = Math.max(min, Math.min(max, v))
JClamp(v, lo, hi) == JMax(lo, JMin(hi, v))

\* the number with the exact value q, computed by the expression t
Num(q, t) == [n |-> q.n, d |-> q.d, t |-> t]

\* Math.round of the number with the exact value q, computed by the expression t
JRound(q, t) == IF q.d = 2 THEN Arith("Math.round", t, 0, 0, 0) ELSE RRound(q)

\* Math.round(x * 0.35) (90 * 0.35 = 31.499999999999996 rounds to 31)
RoundOf35Percent(x) == JRound(R(35 * x, 100), JMul(Lit(x, 1), Lit(35, 100)))

\* an optional value: <<>> is undefined / null, <<v>> is v
None == <<>>

Some(v) == <<v>>

(***************************************************************************)
(* The content bundle the engine is run on (its immutable input).          *)
(* Numbers with a fraction are given in thousandths (field names ending    *)
(* in Milli) or as a rational.  Absent optional fields are None.           *)
(***************************************************************************)
StatKeys == {"control", "power", "durability", "precision", "tactics"}

Content ==
  [ xpCurve |-> [base |-> 10, growth |-> [n |-> 3, d |-> 2]],
    progression |-> [baseLineIntegrity |-> 56, lineIntegrityPerLevel |-> 2,
                     lineIntegrityPerDurability |-> 6],
    startingCurrency |-> 3,
    regionOrder |-> <<"shore", "deep">>,
    regions |-> [ shore |-> [requiredLevel |-> 1,
                             encounterPool |-> << [enemyId |-> "pike", weight |-> 2],
                                                  [enemyId |-> "eel", weight |-> 1] >>],
                  deep  |-> [requiredLevel |-> 2,
                             encounterPool |-> << [enemyId |-> "bass", weight |-> 1],
                                                  [enemyId |-> "eel", weight |-> 1] >>] ],
    \* pike and bass use the fishing fields, eel the legacy ones (maxHp / attack);
    \* pike and eel pull hard, bass pulls gently
    enemies |-> [ pike |-> [xp |-> 40, stamina |-> Some(70), pressure |-> Some(250),
                            maxHp |-> None, attack |-> None],
                  bass |-> [xp |-> 12, stamina |-> Some(80), pressure |-> Some(10),
                            maxHp |-> None, attack |-> None],
                  eel  |-> [xp |-> 5, stamina |-> None, pressure |-> None,
                            maxHp |-> Some(30), attack |-> Some(200)] ],
    actions |-> [ reel    |-> [kind |-> "reel", staminaDelta |-> -20, tensionDelta |-> 12,
                               damage |-> 0, heal |-> 0, focusCost |-> 0, focusGain |-> 0],
                  brace   |-> [kind |-> "brace", staminaDelta |-> 0, tensionDelta |-> -10,
                               damage |-> 0, heal |-> 0, focusCost |-> 0, focusGain |-> 0],
                  adjust  |-> [kind |-> "adjust", staminaDelta |-> 0, tensionDelta |-> -6,
                               damage |-> 0, heal |-> 0, focusCost |-> 0, focusGain |-> 0],
                  surge   |-> [kind |-> "technique", staminaDelta |-> -60, tensionDelta |-> 30,
                               damage |-> 0, heal |-> 0, focusCost |-> 0, focusGain |-> 0],
                  strike  |-> [kind |-> "attack", staminaDelta |-> 0, tensionDelta |-> 0,
                               damage |-> 20, heal |-> 0, focusCost |-> 10, focusGain |-> 0],
                  breathe |-> [kind |-> "utility", staminaDelta |-> 0, tensionDelta |-> 0,
                               damage |-> 0, heal |-> 0, focusCost |-> 0, focusGain |-> 6] ],
    items |-> [ kit |-> [integrityRestore |-> Some(10), tensionReduce |-> 20, heal |-> 0] ],
    skillOrder |-> <<"steady", "clutch", "bleeder", "surge_skill">>,
    skills |-> [ steady |-> [type |-> "PASSIVE", requiredLevel |-> 1, maxRank |-> 2,
                             prereq |-> <<>>, grantsActions |-> {},
                             effects |-> << [kind |-> "INTEGRITY_WEAR_MULT", multPerRankMilli |-> 250],
                                            [kind |-> "FISH_TENSION_MULT", multPerRankMilli |-> 100],
                                            [kind |-> "BRACE_BONUS", bracePerRank |-> 4, reliefPerRank |-> 3],
                                            [kind |-> "CONTROL_ON_BRACE", controlPerRank |-> 4] >>],
                 clutch |-> [type |-> "REACTIVE", requiredLevel |-> 1, maxRank |-> 1,
                             prereq |-> <<>>, grantsActions |-> {},
                             effects |-> << [kind |-> "NEGATE_WEAR_ON_PERFECT"],
                                            [kind |-> "CONTROL_ON_HIGH_TENSION", threshold |-> 70,
                                             controlPerRank |-> 5] >>],
                 \* a PASSIVE skill that lists an action: only ACTIVE skills grant theirs
                 bleeder |-> [type |-> "PASSIVE", requiredLevel |-> 1, maxRank |-> 1,
                              prereq |-> <<>>, grantsActions |-> {"strike"},
                              effects |-> << [kind |-> "STAMINA_BLEED_EXHAUSTED", bleedPerRank |-> 3] >>],
                 surge_skill |-> [type |-> "ACTIVE", requiredLevel |-> 2, maxRank |-> 1,
                                  prereq |-> <<"steady">>, grantsActions |-> {"surge"},
                                  effects |-> <<>>] ],
    rigMods |-> [ tuned |-> [effects |-> << [kind |-> "STAT_BONUS", stat |-> "power", add |-> 2],
                                            [kind |-> "STAT_BONUS", stat |-> "precision", add |-> 5],
                                            [kind |-> "FISH_TENSION_MULT", multMilli |-> 800],
                                            [kind |-> "INTEGRITY_WEAR_MULT", multMilli |-> 3000] >>] ],
    shops |-> [ camp |-> [stock |-> << [id |-> "s_kit", kind |-> "ITEM", itemId |-> "kit",
                                        modId |-> "", price |-> 2, amount |-> 1],
                                       [id |-> "s_mod", kind |-> "RIG_MOD", itemId |-> "",
                                        modId |-> "tuned", price |-> 3, amount |-> 0],
                                       [id |-> "s_lost", kind |-> "ITEM", itemId |-> "lure",
                                        modId |-> "", price |-> 1, amount |-> 1],
                                       [id |-> "s_void", kind |-> "RIG_MOD", itemId |-> "",
                                        modId |-> "void", price |-> 1, amount |-> 0] >>] ],
    contracts |-> [ haul |-> [regionId |-> "shore",
                              encounterCount |-> [min |-> 1, max |-> 2],
                              encounterPool |-> <<>>,
                              rewardsPerFight |-> Some([min |-> R(0, 1), max |-> R(1, 1)]),
                              rewards |-> Some([min |-> R(2, 1), max |-> R(2, 1)])],
                    abyss |-> [regionId |-> "deep",
                               encounterCount |-> [min |-> 2, max |-> 2],
                               encounterPool |-> << [enemyId |-> "eel", weight |-> 1] >>,
                               rewardsPerFight |-> None,
                               rewards |-> Some([min |-> R(3, 2), max |-> R(3, 2)])],
                    \* a contract whose region is not in the content
                    wreck |-> [regionId |-> "sunk",
                               encounterCount |-> [min |-> 1, max |-> 1],
                               encounterPool |-> << [enemyId |-> "pike", weight |-> 1] >>,
                               rewardsPerFight |-> None,
                               rewards |-> None],
                    \* a contract that pays the largest reward rollRange lets through
                    trove |-> [regionId |-> "shore",
                               encounterCount |-> [min |-> 1, max |-> 1],
                               encounterPool |-> << [enemyId |-> "pike", weight |-> 1] >>,
                               rewardsPerFight |-> None,
                               rewards |-> Some([min |-> R(999999, 1), max |-> R(999999, 1)])] ],
    loadout |-> [startActions |-> {"reel", "brace", "adjust"},
                 startItems |-> [kit |-> 1, lure |-> 1]] ]

RegionIds == DOMAIN Content.regions

EnemyIds == DOMAIN Content.enemies

ActionIds == DOMAIN Content.actions

ItemIds == DOMAIN Content.items

SkillIds == DOMAIN Content.skills

RigModIds == DOMAIN Content.rigMods

ShopIds == DOMAIN Content.shops

ContractIds == DOMAIN Content.contracts

\* every item id an inventory can hold (loadout ids need not exist in content.items)
InventoryIds == DOMAIN Content.loadout.startItems \cup ItemIds

(***************************************************************************)
(* Progression math (stats, point totals, derived values).                 *)
(***************************************************************************)
defaultStats == [control |-> 0, power |-> 0, durability |-> 0, precision |-> 0, tactics |-> 0]

sumStats(stats) ==
  stats.control + stats.power + stats.durability + stats.precision + stats.tactics

RECURSIVE SumOver(_, _)
SumOver(f, S) ==
  IF S = {} THEN 0
  ELSE LET k == CHOOSE k \in S : TRUE IN f[k] + SumOver(f, S \ {k})

\* only positive ranks count
sumSkillRanks(ranks) ==
  SumOver([k \in DOMAIN ranks |-> IF ranks[k] > 0 THEN ranks[k] ELSE 0], DOMAIN ranks)

totalStatPointsForLevel(level) == Max(0, level)

totalSkillPointsForLevel(level) == Max(0, level)

deriveMaxLineIntegrity(level, durability) ==
  LET t == Content.progression
  IN clamp(t.baseLineIntegrity + t.lineIntegrityPerLevel * Max(0, level - 1)
             + t.lineIntegrityPerDurability * Max(0, durability), 60, 260)

\* max(10, floor(base * growth^(level-1)))
xpForLevel(level) ==
  LET g == Content.xpCurve.growth
      e == Max(0, level - 1)
  IN Max(10, RFloor(R(Content.xpCurve.base * Pow(g.n, e), Pow(g.d, e))))

\* clamp((level - 1) * 0.01, 0, 0.12), in hundredths
levelBraceBonus(level) ==
  Num(R(clamp(level - 1, 0, 12), 100),
      JClamp(JAdd(Lit(0, 1), JMul(Lit(level - 1, 1), Lit(1, 100))), Lit(0, 1), Lit(12, 100)))

firstRegionId == Content.regionOrder[1]

(***************************************************************************)
(* Content interpretation (fish, phases, actions).                         *)
(***************************************************************************)
\* a missing enemy id yields the built-in default fish, never a falsy value
getFish(enemyId) ==
  IF enemyId \notin EnemyIds
  THEN [id |-> enemyId, maxStamina |-> 80, pressure |-> 10, xp |-> 10]
  ELSE LET e == Content.enemies[enemyId]
       IN [id |-> enemyId,
           maxStamina |-> IF e.stamina # None THEN e.stamina[1]
                          ELSE IF e.maxHp # None THEN e.maxHp[1] ELSE 80,
           pressure |-> IF e.pressure # None THEN e.pressure[1]
                        ELSE IF e.attack # None THEN e.attack[1] ELSE 10,
           xp |-> e.xp]

\* r = stamina / max; r > 0.66, r > 0.33
phaseForStamina(stamina, max) ==
  IF max <= 0 THEN "EXHAUSTED"
  ELSE IF 100 * stamina > 66 * max THEN "AGGRESSIVE"
  ELSE IF 100 * stamina > 33 * max THEN "DEFENSIVE"
  ELSE "EXHAUSTED"

\* variant: an AGGRESSIVE opponent gives way to the reel like no other
phaseTuningEven(s, phase) ==
  LET handling == clamp(12 * (s.player.level - 1), 0, 120)   \* thousandths
      handlingExpr == JClamp(JAdd(Lit(0, 1), JMul(Lit(s.player.level - 1, 1), Lit(12, 1000))),
                             Lit(0, 1), Lit(12, 100))
      aggressivePressure == Num(R(1200 - handling, 1000), JSub(Lit(12, 10), handlingExpr))
  IN IF phase = "AGGRESSIVE"
     THEN [pressureMult |-> aggressivePressure, reelEffMult |-> Num(R(1, 1), Lit(1, 1))]
     ELSE IF phase = "DEFENSIVE"
     THEN [pressureMult |-> Num(R(95, 100), Lit(95, 100)), reelEffMult |-> Num(R(8, 10), Lit(8, 10))]
     ELSE [pressureMult |-> Num(R(7, 10), Lit(7, 10)), reelEffMult |-> Num(R(125, 100), Lit(125, 100))]

phaseTuning(s, phase) ==
  LET handling == clamp(12 * (s.player.level - 1), 0, 120)   \* thousandths
      handlingExpr == JClamp(JAdd(Lit(0, 1), JMul(Lit(s.player.level - 1, 1), Lit(12, 1000))),
                             Lit(0, 1), Lit(12, 100))
      aggressivePressure == Num(R(1200 - handling, 1000), JSub(Lit(12, 10), handlingExpr))
  IN IF phase = "AGGRESSIVE"
     THEN [pressureMult |-> aggressivePressure, reelEffMult |-> Num(R(9, 10), Lit(9, 10))]
     ELSE IF phase = "DEFENSIVE"
     THEN [pressureMult |-> Num(R(95, 100), Lit(95, 100)), reelEffMult |-> Num(R(8, 10), Lit(8, 10))]
     ELSE [pressureMult |-> Num(R(7, 10), Lit(7, 10)), reelEffMult |-> Num(R(125, 100), Lit(125, 100))]

interpretAction(a) ==
  IF a.kind \in {"reel", "brace", "adjust", "technique"}
  THEN [kind |-> a.kind,
        staminaTake |-> Max(0, -a.staminaDelta),
        tension |-> Abs(a.tensionDelta),
        brace |-> IF a.kind = "brace" THEN 14 ELSE 0,
        control |-> IF a.kind = "adjust" THEN 8 ELSE 0]
  ELSE IF a.kind = "attack"
  THEN [kind |-> "reel",
        staminaTake |-> Max(0, a.damage),
        tension |-> 12 + JRound(R(7 * a.focusCost, 10), JMul(Lit(a.focusCost, 1), Lit(7, 10))),
        brace |-> 0,
        control |-> 0]
  ELSE LET relief == 10 + RoundOf35Percent(a.focusGain)
                       + JRound(R(4 * a.heal, 10), JMul(Lit(a.heal, 1), Lit(4, 10)))
           kind == IF a.focusGain >= 14 THEN "adjust" ELSE "brace"
       IN [kind |-> kind,
           staminaTake |-> 0,
           tension |-> relief,
           brace |-> IF kind = "brace" THEN 18 ELSE 0,
           control |-> IF kind = "adjust" THEN 10 ELSE 0]

(***************************************************************************)
(* Skills and rig mods (data-driven totals).                               *)
(***************************************************************************)
SkillRank(s, id) == IF id \in DOMAIN s.player.skillRanks THEN s.player.skillRanks[id] ELSE 0

\* a variant that lets a skill of any type grant its actions
computeKnownActionsAnyType(baseActions, skillRanks) ==
  baseActions \cup
  UNION { Content.skills[id].grantsActions :
            id \in { k \in DOMAIN skillRanks \cap SkillIds : skillRanks[k] > 0 } }

\* base actions plus the granted actions of every ACTIVE skill at rank > 0
computeKnownActions(baseActions, skillRanks) ==
  baseActions \cup
  UNION { Content.skills[id].grantsActions :
            id \in { k \in DOMAIN skillRanks \cap SkillIds :
                       skillRanks[k] > 0 /\ Content.skills[k].type = "ACTIVE" } }

RECURSIVE RigFold(_, _, _)
\* folds the effects (a sequence) of one rig mod, from index i, into the totals
RigFold(totals, effects, i) ==
  IF i > Len(effects) THEN totals
  ELSE LET e == effects[i]
           next ==
             IF e.kind = "STAT_BONUS"
             THEN IF e.stat \in StatKeys
                  THEN [totals EXCEPT !.statBonus[e.stat] = @ + e.add,
                                      !.hasBonus = @ \cup {e.stat}]
                  ELSE totals
             ELSE IF e.kind = "FISH_TENSION_MULT"
             THEN [totals EXCEPT !.fishTensionMult =
                     Num(RMul(@, R(clamp(e.multMilli, 250, 2500), 1000)),
                         JMul(@.t, JClamp(Lit(e.multMilli, 1000), Lit(25, 100), Lit(25, 10))))]
             ELSE IF e.kind = "INTEGRITY_WEAR_MULT"
             THEN [totals EXCEPT !.integrityWearMult =
                     Num(RMul(@, R(clamp(e.multMilli, 250, 2500), 1000)),
                         JMul(@.t, JClamp(Lit(e.multMilli, 1000), Lit(25, 100), Lit(25, 10))))]
             ELSE totals
       IN RigFold(next, effects, i + 1)

RECURSIVE RigModsFold(_, _, _)
RigModsFold(totals, mods, i) ==
  IF i > Len(mods) THEN totals
  ELSE RigModsFold(
         IF mods[i] \in RigModIds THEN RigFold(totals, Content.rigMods[mods[i]].effects, 1)
         ELSE totals,
         mods, i + 1)

collectRigTotals(s) ==
  RigModsFold([statBonus |-> [k \in StatKeys |-> 0], hasBonus |-> {},
               fishTensionMult |-> Num(R(1, 1), Lit(1, 1)),
               integrityWearMult |-> Num(R(1, 1), Lit(1, 1))],
              s.temporaryMods, 1)

\* base stats plus rig bonuses; only the stats that have a bonus are clamped to 0..99
effectiveStats(s) ==
  LET rig == collectRigTotals(s)
  IN [k \in StatKeys |->
        IF k \in rig.hasBonus THEN clamp(s.player.stats[k] + rig.statBonus[k], 0, 99)
        ELSE s.player.stats[k]]

RECURSIVE EffectFold(_, _, _, _)
\* folds the effects of one skill held at `rank` into the totals
EffectFold(totals, effects, rank, i) ==
  IF i > Len(effects) THEN totals
  ELSE LET e == effects[i]
           next ==
             IF e.kind = "INTEGRITY_WEAR_MULT"
             THEN [totals EXCEPT !.integrityWearMult =
                     Num(RMul(@, R(Max(250, 1000 - e.multPerRankMilli * rank), 1000)),
                         JMul(@.t, JMax(Lit(25, 100),
                                        JSub(Lit(1, 1), JMul(Lit(e.multPerRankMilli, 1000),
                                                             Lit(rank, 1))))))]
             ELSE IF e.kind = "FISH_TENSION_MULT"
             THEN [totals EXCEPT !.fishTensionMult =
                     Num(RMul(@, R(Max(400, 1000 - e.multPerRankMilli * rank), 1000)),
                         JMul(@.t, JMax(Lit(4, 10),
                                        JSub(Lit(1, 1), JMul(Lit(e.multPerRankMilli, 1000),
                                                             Lit(rank, 1))))))]
             ELSE IF e.kind = "BRACE_BONUS"
             THEN [totals EXCEPT !.braceBonus = @ + e.bracePerRank * rank,
                                 !.braceReliefBonus = @ + e.reliefPerRank * rank]
             ELSE IF e.kind = "CONTROL_ON_BRACE"
             THEN [totals EXCEPT !.controlOnBrace = @ + e.controlPerRank * rank]
             ELSE IF e.kind = "STAMINA_BLEED_EXHAUSTED"
             THEN [totals EXCEPT !.staminaBleedExhausted = @ + e.bleedPerRank * rank]
             ELSE IF e.kind = "CONTROL_ON_HIGH_TENSION"
             THEN [totals EXCEPT
                     !.controlOnHighTensionThreshold =
                        IF @ = None THEN Some(e.threshold) ELSE Some(Min(@[1], e.threshold)),
                     !.controlOnHighTensionGain = @ + e.controlPerRank * rank]
             ELSE IF e.kind = "NEGATE_WEAR_ON_PERFECT"
             THEN [totals EXCEPT !.negateWearOnPerfect = TRUE]
             ELSE totals
       IN EffectFold(next, effects, rank, i + 1)

RECURSIVE SkillsFold(_, _, _)
SkillsFold(totals, s, i) ==
  IF i > Len(Content.skillOrder) THEN totals
  ELSE LET id == Content.skillOrder[i]
       IN SkillsFold(
            IF SkillRank(s, id) > 0
            THEN EffectFold(totals, Content.skills[id].effects, SkillRank(s, id), 1)
            ELSE totals,
            s, i + 1)

collectEffects(s) ==
  LET totals == SkillsFold([integrityWearMult |-> Num(R(1, 1), Lit(1, 1)),
                            fishTensionMult |-> Num(R(1, 1), Lit(1, 1)),
                            braceBonus |-> 0,
                            braceReliefBonus |-> 0,
                            controlOnBrace |-> 0,
                            staminaBleedExhausted |-> 0,
                            controlOnHighTensionThreshold |-> None,
                            controlOnHighTensionGain |-> 0,
                            negateWearOnPerfect |-> FALSE], s, 1)
      rig == collectRigTotals(s)
  IN [totals EXCEPT
        !.integrityWearMult = Num(RMul(@, rig.integrityWearMult), JMul(@.t, rig.integrityWearMult.t)),
        !.fishTensionMult = Num(RMul(@, rig.fishTensionMult), JMul(@.t, rig.fishTensionMult.t))]

(***************************************************************************)
(* The game snapshot.  combat and contract are optional (None or Some).    *)
(* lastEvent keeps the event's type tag; its payload is never read back.   *)
(***************************************************************************)
Event(type) == [type |-> type]

Log == Event("LOG")

WithEvent(s, ev) == [s EXCEPT !.lastEvent = ev]

\* the flags of a combat without a skill record: the turn of the last high-tension
\* grant is undefined
NoSkillFlags == [negateWearThisTurn |-> FALSE, highTensionTriggeredTurn |-> None]

makeNewRunState ==
  [ progress |-> [regionId |-> firstRegionId],
    player |-> [ level |-> 1,
                 xp |-> 0,
                 xpToNext |-> xpForLevel(1),
                 stats |-> defaultStats,
                 unspentStatPoints |-> totalStatPointsForLevel(1),
                 skillRanks |-> [k \in SkillIds |-> 0],
                 unspentSkillPoints |-> totalSkillPointsForLevel(1),
                 tension |-> 10,
                 maxTension |-> 100,
                 lineIntegrity |-> deriveMaxLineIntegrity(1, defaultStats.durability),
                 maxLineIntegrity |-> deriveMaxLineIntegrity(1, defaultStats.durability),
                 knownActions |-> computeKnownActions(Content.loadout.startActions,
                                                      [k \in SkillIds |-> 0]),
                 inventory |-> Content.loadout.startItems ],
    currency |-> Max(0, Content.startingCurrency),
    temporaryMods |-> <<>>,
    contract |-> None,
    combat |-> None,
    lastEvent |-> Log ]

HasCombat(s) == s.combat # None

HasContract(s) == s.contract # None

(***************************************************************************)
(* Tension / integrity rules.                                              *)
(***************************************************************************)
\* clamp(58 + round(combatControl * 0.35) + round(statControl * 1.15), 50, 86)
safeTensionLimit(s) ==
  LET combatControl == IF HasCombat(s) THEN s.combat[1].control ELSE 0
      statControl == effectiveStats(s).control
  IN clamp(58 + RoundOf35Percent(combatControl)
              + JRound(R(115 * statControl, 100), JMul(Lit(statControl, 1), Lit(115, 100))), 50, 86)

\* variant: the new tension is not clamped to [0, maxTension]
applyTensionUnclamped(s, delta) ==
  [s EXCEPT !.player.tension = s.player.tension + delta,
            !.lastEvent = Event("TENSION")]

\* delta is an integer here: every caller rounds before calling
applyTension(s, delta) ==
  [s EXCEPT !.player.tension = clamp(s.player.tension + delta, 0, s.player.maxTension),
            !.lastEvent = Event("TENSION")]

\* the wear removed by one opponent turn at this tension (0 when none applies)
WearAmount(s) ==
  LET over == Max(0, s.player.tension - safeTensionLimit(s))
      baseWear == clamp(RCeil(R(over, 10)), 1, 8)
      stats == effectiveStats(s)
      effects == collectEffects(s)
      durabilityMult == Num(R(clamp(100 - 3 * stats.durability, 65, 100), 100),
                            JClamp(JSub(Lit(1, 1), JMul(Lit(stats.durability, 1), Lit(3, 100))),
                                   Lit(65, 100), Lit(1, 1)))
      wearMult == Num(RMax(R(2, 10), RMul(durabilityMult, effects.integrityWearMult)),
                      JMax(Lit(2, 10), JMul(durabilityMult.t, effects.integrityWearMult.t)))
      wear == JRound(RMul(R(baseWear, 1), wearMult), JMul(Lit(baseWear, 1), wearMult.t))
  IN IF over <= 0 THEN 0 ELSE clamp(wear, 1, 8)

\* variant: wear starts at the safe limit itself
applyIntegrityWearAtLimit(s) ==
  IF HasCombat(s) /\ s.combat[1].skill.negateWearThisTurn THEN s
  ELSE IF Max(0, s.player.tension - safeTensionLimit(s) + 1) <= 0 THEN s
  ELSE [s EXCEPT !.player.lineIntegrity =
                    clamp(s.player.lineIntegrity - Max(1, WearAmount(s)), 0, s.player.maxLineIntegrity),
                 !.lastEvent = Event("INTEGRITY")]

applyIntegrityWear(s) ==
  IF HasCombat(s) /\ s.combat[1].skill.negateWearThisTurn THEN s
  ELSE IF Max(0, s.player.tension - safeTensionLimit(s)) <= 0 THEN s
  ELSE [s EXCEPT !.player.lineIntegrity =
                    clamp(s.player.lineIntegrity - WearAmount(s), 0, s.player.maxLineIntegrity),
                 !.lastEvent = Event("INTEGRITY")]

(***************************************************************************)
(* XP / leveling.                                                          *)
(***************************************************************************)
RECURSIVE LevelUpLoop(_, _, _, _)
\* variant: a level-up grants a stat point but no skill point
LevelUpLoopStatOnly(s, xp, level, xpToNext) ==
  IF xp >= xpToNext
  THEN LevelUpLoop([s EXCEPT !.player.level = level + 1,
                             !.player.maxLineIntegrity =
                                deriveMaxLineIntegrity(level + 1, s.player.stats.durability),
                             !.player.lineIntegrity =
                                deriveMaxLineIntegrity(level + 1, s.player.stats.durability),
                             !.player.xp = xp - xpToNext,
                             !.player.xpToNext = xpForLevel(level + 1),
                             !.player.unspentStatPoints = @ + 1,
                             !.lastEvent = Event("LEVEL_UP")],
                   xp - xpToNext, level + 1, xpForLevel(level + 1))
  ELSE [s EXCEPT !.player.xp = xp, !.player.xpToNext = xpToNext]

\* variant: every level asks for the xp the first one did
LevelUpLoopFlat(s, xp, level, xpToNext) ==
  IF xp >= xpToNext
  THEN LevelUpLoop([s EXCEPT !.player.level = level + 1,
                             !.player.maxLineIntegrity =
                                deriveMaxLineIntegrity(level + 1, s.player.stats.durability),
                             !.player.lineIntegrity =
                                deriveMaxLineIntegrity(level + 1, s.player.stats.durability),
                             !.player.xp = xp - xpToNext,
                             !.player.unspentStatPoints = @ + 1,
                             !.player.unspentSkillPoints = @ + 1,
                             !.lastEvent = Event("LEVEL_UP")],
                   xp - xpToNext, level + 1, xpToNext)
  ELSE [s EXCEPT !.player.xp = xp, !.player.xpToNext = xpToNext]

\* the while loop of grantXp: s is the state so far, xp / level / xpToNext its locals
LevelUpLoop(s, xp, level, xpToNext) ==
  IF xp >= xpToNext
  THEN LET xp2 == xp - xpToNext
           level2 == level + 1
           xpToNext2 == xpForLevel(level2)
           maxLineIntegrity == deriveMaxLineIntegrity(level2, s.player.stats.durability)
       IN LevelUpLoop([s EXCEPT !.player.level = level2,
                                !.player.maxLineIntegrity = maxLineIntegrity,
                                !.player.lineIntegrity = maxLineIntegrity,
                                !.player.xp = xp2,
                                !.player.xpToNext = xpToNext2,
                                !.player.unspentStatPoints = @ + 1,
                                !.player.unspentSkillPoints = @ + 1,
                                !.lastEvent = Event("LEVEL_UP")],
                      xp2, level2, xpToNext2)
  ELSE [s EXCEPT !.player.xp = xp, !.player.xpToNext = xpToNext]

grantXp(s, amount) ==
  LevelUpLoop(s, s.player.xp + amount, s.player.level, s.player.xpToNext)

\* variant: a win resets tension to 0
resolveWinReset(fish, s) ==
  grantXp([s EXCEPT !.combat = None, !.player.tension = 0, !.lastEvent = Event("XP")], fish.xp)

resolveWin(fish, s) ==
  grantXp([s EXCEPT !.combat = None,
                    !.player.tension = Max(0, RoundOf35Percent(s.player.tension)),
                    !.lastEvent = Event("XP")],
          fish.xp)

resolveLose(s) ==
  [s EXCEPT !.combat = IF HasCombat(s) THEN Some([@[1] EXCEPT !.outcome = "DEFEAT_PROMPT"]) ELSE None,
            !.lastEvent = Event("DEFEAT_PROMPT")]

(***************************************************************************)
(* Combat loop.                                                            *)
(***************************************************************************)
SetCombat(s, c) == [s EXCEPT !.combat = Some(c)]

\* passive stamina bleed at the start of the opponent turn (EXHAUSTED phase only)
FishBleed(s) ==
  LET c == s.combat[1]
      effects == collectEffects(s)
      bleed == Min(c.fishStamina, effects.staminaBleedExhausted)
  IN IF c.fishPhase = "EXHAUSTED" /\ effects.staminaBleedExhausted > 0 /\ bleed > 0
     THEN WithEvent(SetCombat(s, [c EXCEPT !.fishStamina = Max(0, c.fishStamina - bleed)]),
                    Event("STAMINA"))
     ELSE s

\* the tension the opponent's pull adds: round(mitigated * controlMult * flowMult * tensionMult)
FishTensionDelta(fish, s0, s) ==
  LET pressureMult == phaseTuning(s0, s0.combat[1].fishPhase).pressureMult
      stats == effectiveStats(s0)
      effects == collectEffects(s0)
      basePressure == JRound(RMul(R(fish.pressure, 1), pressureMult),
                             JMul(Lit(fish.pressure, 1), pressureMult.t))
      mitigated == Max(0, basePressure - s.combat[1].brace)
      controlMult == Num(R(clamp(1000 - 18 * stats.control, 720, 1000), 1000),
                         JClamp(JSub(Lit(1, 1), JMul(Lit(stats.control, 1), Lit(18, 1000))),
                                Lit(72, 100), Lit(1, 1)))
      flowMult == Num(R(clamp(1000 - 8 * s.combat[1].control, 700, 1000), 1000),
                      JClamp(JSub(Lit(1, 1), JMul(Lit(s.combat[1].control, 1), Lit(8, 1000))),
                             Lit(7, 10), Lit(1, 1)))
      tensionMult == effects.fishTensionMult
  IN JRound(RMul(RMul(RMul(R(mitigated, 1), controlMult), flowMult), tensionMult),
            JMul(JMul(JMul(Lit(mitigated, 1), controlMult.t), flowMult.t), tensionMult.t))

\* reactive control grant when tension is at or above the lowest threshold (once per turn)
FishHighTension(s0, s) ==
  LET effects == collectEffects(s0)
      c == s.combat[1]
  IN IF effects.controlOnHighTensionThreshold # None
        /\ c.skill.highTensionTriggeredTurn # Some(c.turn)
        /\ s.player.tension >= effects.controlOnHighTensionThreshold[1]
     THEN WithEvent(SetCombat(s, [c EXCEPT
                       !.control = clamp(c.control + effects.controlOnHighTensionGain, 0, 60),
                       !.skill.highTensionTriggeredTurn = Some(c.turn)]), Log)
     ELSE s

\* the opponent's pull: pressure applied as tension gain
FishPull(fish, s0, s) == applyTension(s, FishTensionDelta(fish, s0, s))

\* variant: the turn is handed back with the brace still up
FishHandBackBraced(s) ==
  SetCombat(s, [s.combat[1] EXCEPT !.phase = "PLAYER", !.turn = @ + 1])

\* brace is reset after it absorbed one hit and the turn is handed back
FishHandBack(s) ==
  SetCombat(s, [s.combat[1] EXCEPT !.brace = 0, !.phase = "PLAYER", !.turn = @ + 1])

\* variant: the one-turn flag outlives the opponent turn
FishKeepFlags(s) == s

\* the one-turn flag is cleared
FishClearFlags(s) ==
  IF s.combat[1].skill.negateWearThisTurn
  THEN SetCombat(s, [s.combat[1] EXCEPT !.skill.negateWearThisTurn = FALSE])
  ELSE s

\* variant: the line only counts as broken below 0
FishOutcomeBelowZero(s) == IF s.player.lineIntegrity < 0 THEN resolveLose(s) ELSE s

\* a broken line ends the turn in the defeat prompt
FishOutcome(s) == IF s.player.lineIntegrity <= 0 THEN resolveLose(s) ELSE s

fishTurn(fish, s0) ==
  IF ~HasCombat(s0) THEN s0
  ELSE FishOutcome(FishClearFlags(applyIntegrityWear(FishHandBack(
         FishHighTension(s0, FishPull(fish, s0, FishBleed(s0)))))))

Timings == {"NONE", "MISS", "GOOD", "PERFECT"}

\* stamina multiplier, tension bonus and tension relief of a timing grade ("NONE": no grade given)
TimingEffect(stats, timing) ==
  IF timing = "MISS"
  THEN [staminaMult |-> Num(R(150 + Min(80, 4 * stats.precision), 1000),
                            JAdd(Lit(15, 100),
                                 JMin(Lit(8, 100), JMul(Lit(stats.precision, 1), Lit(4, 1000))))),
        tensionBonus |-> Max(5, 14 - JRound(R(6 * stats.precision, 10),
                                            JMul(Lit(stats.precision, 1), Lit(6, 10)))
                                   - JRound(R(25 * stats.control, 100),
                                            JMul(Lit(stats.control, 1), Lit(25, 100)))),
        tensionRelief |-> 0]
  ELSE IF timing = "GOOD"
  THEN [staminaMult |-> Num(R(1000 + Min(120, 6 * stats.precision), 1000),
                            JAdd(Lit(1, 1),
                                 JMin(Lit(12, 100), JMul(Lit(stats.precision, 1), Lit(6, 1000))))),
        tensionBonus |-> 0, tensionRelief |-> 0]
  ELSE IF timing = "PERFECT"
  THEN [staminaMult |-> Num(R(1350 + Min(280, 20 * stats.precision), 1000),
                            JAdd(Lit(135, 100),
                                 JMin(Lit(28, 100), JMul(Lit(stats.precision, 1), Lit(2, 100))))),
        tensionBonus |-> 0,
        tensionRelief |-> 6 + RoundOf35Percent(stats.precision)]
  ELSE [staminaMult |-> Num(R(1, 1), Lit(1, 1)), tensionBonus |-> 0, tensionRelief |-> 0]

\* contract objective tracking: PERFECT timing during a contract fight
CountPerfect(s, timing) ==
  IF timing = "PERFECT" /\ HasContract(s) /\ s.contract[1].phase = "FIGHT"
  THEN [s EXCEPT !.contract = Some([@[1] EXCEPT !.stats.perfectCount = @ + 1])]
  ELSE s

\* stamina taken by a reel / technique (stats: the effective stats at the start of the call)
ReelTake(s, stats, intent, timing) ==
  LET baseStamina == Max(0, intent.staminaTake)
      reelEffMult == phaseTuning(s, s.combat[1].fishPhase).reelEffMult
      staminaMult == TimingEffect(stats, timing).staminaMult
      powerMult == Num(R(1000 + (IF intent.kind = "technique" THEN 50 ELSE 35) * stats.power, 1000),
                       JAdd(Lit(1, 1), JMul(Lit(stats.power, 1),
                                            IF intent.kind = "technique" THEN Lit(5, 100)
                                            ELSE Lit(35, 1000))))
  IN JRound(RMul(RMul(RMul(R(baseStamina, 1), reelEffMult), staminaMult), powerMult),
            JMul(JMul(JMul(Lit(baseStamina, 1), reelEffMult.t), staminaMult.t), powerMult.t))

\* reel / technique, first part: the opponent loses stamina
ReelStamina(s, next, stats, intent, timing) ==
  WithEvent(SetCombat(next, [next.combat[1] EXCEPT
                               !.fishStamina = Max(0, @ - ReelTake(s, stats, intent, timing))]),
            Event("STAMINA"))

\* at high tension, power adds to the tension a reel costs
PowerRisk(next, stats) ==
  IF Max(0, next.player.tension - safeTensionLimit(next)) > 0
  THEN RoundOf35Percent(stats.power)
  ELSE 0

\* reel / technique, second part: reeling raises tension
ReelTension(next, stats, intent, timing) ==
  applyTension(next, intent.tension + TimingEffect(stats, timing).tensionBonus
                     + PowerRisk(next, stats)
                     - TimingEffect(stats, timing).tensionRelief)

\* reel / technique, third part: the one-turn flag of a PERFECT reel
ReelFlag(next, effects, timing) ==
  IF timing = "PERFECT" /\ effects.negateWearOnPerfect
  THEN SetCombat(next, [next.combat[1] EXCEPT !.skill.negateWearThisTurn = TRUE])
  ELSE next

PlayerReel(s, next, stats, effects, intent, timing) ==
  ReelFlag(ReelTension(ReelStamina(s, next, stats, intent, timing), stats, intent, timing),
           effects, timing)

BraceRelief(s, stats, effects, intent) ==
  JRound(RAdd(RMul(R(intent.tension, 1),
                   RAdd(R(100 + 3 * stats.tactics, 100), levelBraceBonus(s.player.level))),
              R(effects.braceReliefBonus, 1)),
         JAdd(JMul(Lit(intent.tension, 1),
                   JAdd(JAdd(Lit(1, 1), JMul(Lit(stats.tactics, 1), Lit(3, 100))),
                        levelBraceBonus(s.player.level).t)),
              Lit(effects.braceReliefBonus, 1)))

BraceGain(s, stats, effects, intent) ==
  JRound(RAdd(RMul(R(intent.brace, 1),
                   RAdd(R(100 + 4 * stats.tactics, 100), levelBraceBonus(s.player.level))),
              R(effects.braceBonus, 1)),
         JAdd(JMul(Lit(intent.brace, 1),
                   JAdd(JAdd(Lit(1, 1), JMul(Lit(stats.tactics, 1), Lit(4, 100))),
                        levelBraceBonus(s.player.level).t)),
              Lit(effects.braceBonus, 1)))

\* brace: reduce current tension and reduce incoming pressure
PlayerBrace(s, next, stats, effects, intent) ==
  WithEvent(SetCombat(applyTension(next, -BraceRelief(s, stats, effects, intent)),
                      [next.combat[1] EXCEPT
                         !.brace = clamp(@ + BraceGain(s, stats, effects, intent), 0, 60),
                         !.control = clamp(@ + effects.controlOnBrace, 0, 60)]),
            Log)

\* adjust: a small immediate relief plus a persistent control bonus
PlayerAdjust(next, stats, intent) ==
  WithEvent(SetCombat(applyTension(next, -JRound(R(intent.tension * (100 + stats.control), 100),
                                                 JMul(Lit(intent.tension, 1),
                                                      JAdd(Lit(1, 1), JMul(Lit(stats.control, 1),
                                                                           Lit(1, 100)))))),
                      [next.combat[1] EXCEPT
                         !.control = clamp(@ + JRound(R(intent.control * (100 + 5 * stats.tactics),
                                                        100),
                                                      JMul(Lit(intent.control, 1),
                                                           JAdd(Lit(1, 1),
                                                                JMul(Lit(stats.tactics, 1),
                                                                     Lit(5, 100))))),
                                           0, 60)]),
            Log)

\* stats / effects: effectiveStats and collectEffects of s, the snapshot the call started from
PlayerKind(s, next, stats, effects, intent, timing) ==
  IF intent.kind \in {"reel", "technique"} THEN PlayerReel(s, next, stats, effects, intent, timing)
  ELSE IF intent.kind = "brace" THEN PlayerBrace(s, next, stats, effects, intent)
  ELSE IF intent.kind = "adjust" THEN PlayerAdjust(next, stats, intent)
  ELSE next

\* variant: the phase is left as it was when the encounter started
PhaseUpdateSkipped(next) == next

\* the opponent's phase is derived from its remaining stamina
PhaseUpdate(next) ==
  IF phaseForStamina(next.combat[1].fishStamina, next.combat[1].maxFishStamina)
       # next.combat[1].fishPhase
  THEN WithEvent(SetCombat(next, [next.combat[1] EXCEPT
                   !.fishPhase = phaseForStamina(next.combat[1].fishStamina,
                                                 next.combat[1].maxFishStamina)]),
                 Event("PHASE"))
  ELSE next

\* the player's part of applyAction, up to and including the phase update
PlayerAct(s, actionId, timing) ==
  PhaseUpdate(PlayerKind(s, CountPerfect(s, timing), effectiveStats(s), collectEffects(s),
                         interpretAction(Content.actions[actionId]), timing))

\* variant: the opponent responds before the win check
ActionOutcomeAfterResponse(fish, next) ==
  IF fishTurn(fish, SetCombat(next, [next.combat[1] EXCEPT !.phase = "FISH"]))
       .combat[1].fishStamina <= 0
  THEN resolveWin(fish, fishTurn(fish, SetCombat(next, [next.combat[1] EXCEPT !.phase = "FISH"])))
  ELSE fishTurn(fish, SetCombat(next, [next.combat[1] EXCEPT !.phase = "FISH"]))

\* win check, else the opponent's response ends the full turn
ActionOutcome(fish, next) ==
  IF next.combat[1].fishStamina <= 0 THEN resolveWin(fish, next)
  ELSE fishTurn(fish, SetCombat(next, [next.combat[1] EXCEPT !.phase = "FISH"]))

\* variant: the defeat prompt does not block the action
applyActionAtAnyOutcome(s, actionId, timing) ==
  IF ~HasCombat(s) THEN WithEvent(s, Log)
  ELSE IF s.combat[1].phase # "PLAYER" THEN s
  ELSE IF actionId \notin ActionIds THEN WithEvent(s, Log)
  ELSE ActionOutcome(getFish(s.combat[1].enemyId), PlayerAct(s, actionId, timing))

applyAction(s, actionId, timing) ==
  IF ~HasCombat(s) THEN WithEvent(s, Log)
  ELSE IF s.combat[1].outcome = "DEFEAT_PROMPT" THEN s
  ELSE IF s.combat[1].phase # "PLAYER" THEN s
  ELSE IF actionId \notin ActionIds THEN WithEvent(s, Log)
  ELSE ActionOutcome(getFish(s.combat[1].enemyId), PlayerAct(s, actionId, timing))

ItemCount(s, itemId) ==
  IF itemId \in DOMAIN s.player.inventory THEN s.player.inventory[itemId] ELSE 0

\* item.integrityRestore ?? item.heal ?? 0
ItemRestore(item) ==
  IF item.integrityRestore # None THEN item.integrityRestore[1] ELSE item.heal

ItemUsed(s, itemId, item) ==
  [s EXCEPT !.player.lineIntegrity =
               clamp(s.player.lineIntegrity + ItemRestore(item), 0, s.player.maxLineIntegrity),
            !.player.inventory[itemId] = ItemCount(s, itemId) - 1,
            !.lastEvent = IF ItemRestore(item) > 0 THEN Event("INTEGRITY") ELSE Log]

ItemEased(s, item) ==
  IF item.tensionReduce # 0 THEN applyTension(s, -item.tensionReduce) ELSE s

\* the opponent reacts after an item if in combat and not in the defeat prompt
ItemReaction(s) ==
  IF HasCombat(s) /\ s.combat[1].phase = "PLAYER" /\ s.combat[1].outcome # "DEFEAT_PROMPT"
  THEN fishTurn(getFish(s.combat[1].enemyId),
                SetCombat(s, [s.combat[1] EXCEPT !.phase = "FISH"]))
  ELSE s

\* variant: an item missing from the content is still taken out of the bag
useItemSpent(s, itemId) ==
  IF ItemCount(s, itemId) <= 0 THEN WithEvent(s, Log)
  ELSE IF itemId \notin ItemIds
  THEN [s EXCEPT !.player.inventory[itemId] = @ - 1, !.lastEvent = Log]
  ELSE ItemReaction(ItemEased(ItemUsed(s, itemId, Content.items[itemId]),
                              Content.items[itemId]))

\* variant: the opponent does not answer the use of an item
useItemUnanswered(s, itemId) ==
  IF ItemCount(s, itemId) <= 0 THEN WithEvent(s, Log)
  ELSE IF itemId \notin ItemIds THEN WithEvent(s, Log)
  ELSE ItemEased(ItemUsed(s, itemId, Content.items[itemId]), Content.items[itemId])

useItem(s, itemId) ==
  IF ItemCount(s, itemId) <= 0 THEN WithEvent(s, Log)
  ELSE IF itemId \notin ItemIds THEN WithEvent(s, Log)
  ELSE ItemReaction(ItemEased(ItemUsed(s, itemId, Content.items[itemId]),
                              Content.items[itemId]))

(***************************************************************************)
(* Build: stats, skills, respec, travel.                                   *)
(***************************************************************************)
\* variant: the point is spent without re-deriving the maximum line integrity
spendStatPointKeepingMax(s, stat) ==
  IF s.player.unspentStatPoints <= 0 THEN WithEvent(s, Log)
  ELSE [s EXCEPT !.player.stats = [s.player.stats EXCEPT ![stat] = @ + 1],
                 !.player.unspentStatPoints = @ - 1,
                 !.lastEvent = Log]

spendStatPoint(s, stat) ==
  IF s.player.unspentStatPoints <= 0 THEN WithEvent(s, Log)
  ELSE LET nextStats == [s.player.stats EXCEPT ![stat] = @ + 1]
           nextMax == deriveMaxLineIntegrity(s.player.level, nextStats.durability)
       IN [s EXCEPT !.player.stats = nextStats,
                    !.player.unspentStatPoints = @ - 1,
                    !.player.maxLineIntegrity = nextMax,
                    !.player.lineIntegrity = clamp(s.player.lineIntegrity, 0, nextMax),
                    !.lastEvent = Log]

\* variant: a respec leaves the live combat as it is
respecAllKeepingCombat(s) ==
  [s EXCEPT !.player.stats = defaultStats,
            !.player.unspentStatPoints = totalStatPointsForLevel(s.player.level),
            !.player.skillRanks = [k \in SkillIds |-> 0],
            !.player.unspentSkillPoints = totalSkillPointsForLevel(s.player.level),
            !.player.maxLineIntegrity = deriveMaxLineIntegrity(s.player.level, 0),
            !.player.lineIntegrity = deriveMaxLineIntegrity(s.player.level, 0),
            !.player.knownActions = computeKnownActions(Content.loadout.startActions,
                                                        [k \in SkillIds |-> 0]),
            !.lastEvent = Log]

\* variant: the skill points are refunded and the ranks kept
respecAllKeepingRanks(s) ==
  [s EXCEPT !.player.stats = defaultStats,
            !.player.unspentStatPoints = totalStatPointsForLevel(s.player.level),
            !.player.unspentSkillPoints = totalSkillPointsForLevel(s.player.level),
            !.player.maxLineIntegrity = deriveMaxLineIntegrity(s.player.level, 0),
            !.player.lineIntegrity = deriveMaxLineIntegrity(s.player.level, 0),
            !.combat = IF HasCombat(s)
                       THEN Some([@[1] EXCEPT !.brace = 0, !.control = 0, !.skill = NoSkillFlags])
                       ELSE None,
            !.lastEvent = Log]

respecAll(s) ==
  LET level == s.player.level
      maxLineIntegrity == deriveMaxLineIntegrity(level, defaultStats.durability)
  IN [s EXCEPT !.player.stats = defaultStats,
               !.player.unspentStatPoints = totalStatPointsForLevel(level),
               !.player.skillRanks = [k \in SkillIds |-> 0],
               !.player.unspentSkillPoints = totalSkillPointsForLevel(level),
               !.player.maxLineIntegrity = maxLineIntegrity,
               !.player.lineIntegrity = maxLineIntegrity,
               !.player.knownActions = computeKnownActions(Content.loadout.startActions,
                                                           [k \in SkillIds |-> 0]),
               !.combat = IF HasCombat(s)
                          THEN Some([@[1] EXCEPT !.brace = 0, !.control = 0, !.skill = NoSkillFlags])
                          ELSE None,
               !.lastEvent = Log]

\* variant: a skill is unlocked whatever the rank of its prerequisites
unlockOrUpgradeSkillUnchained(s, skillId) ==
  IF skillId \notin SkillIds THEN WithEvent(s, Log)
  ELSE LET skill == Content.skills[skillId]
           currentRank == SkillRank(s, skillId)
           nextRanks == [s.player.skillRanks EXCEPT ![skillId] = currentRank + 1]
       IN IF s.player.level < skill.requiredLevel THEN WithEvent(s, Log)
          ELSE IF s.player.unspentSkillPoints <= 0 THEN WithEvent(s, Log)
          ELSE IF currentRank >= skill.maxRank THEN WithEvent(s, Log)
          ELSE [s EXCEPT !.player.skillRanks = nextRanks,
                         !.player.unspentSkillPoints = @ - 1,
                         !.player.knownActions = computeKnownActions(s.player.knownActions, nextRanks),
                         !.lastEvent = Log]

unlockOrUpgradeSkill(s, skillId) ==
  IF skillId \notin SkillIds THEN WithEvent(s, Log)
  ELSE LET skill == Content.skills[skillId]
           currentRank == SkillRank(s, skillId)
           nextRanks == [s.player.skillRanks EXCEPT ![skillId] = currentRank + 1]
       IN IF s.player.level < skill.requiredLevel THEN WithEvent(s, Log)
          ELSE IF s.player.unspentSkillPoints <= 0 THEN WithEvent(s, Log)
          ELSE IF \E i \in 1..Len(skill.prereq) : SkillRank(s, skill.prereq[i]) <= 0 THEN WithEvent(s, Log)
          ELSE IF currentRank >= skill.maxRank THEN WithEvent(s, Log)
          ELSE [s EXCEPT !.player.skillRanks = nextRanks,
                         !.player.unspentSkillPoints = @ - 1,
                         !.player.knownActions = computeKnownActions(s.player.knownActions, nextRanks),
                         !.lastEvent = Log]

setRegion(s, regionId) ==
  IF regionId \notin RegionIds THEN WithEvent(s, Log)
  ELSE IF s.player.level < Content.regions[regionId].requiredLevel THEN WithEvent(s, Log)
  ELSE [s EXCEPT !.progress.regionId = regionId, !.lastEvent = Log]

(***************************************************************************)
(* Encounters.  Math.random is a nondeterministic choice: the operators    *)
(* take the rolled value as a parameter, drawn from the set of values the  *)
(* roll can produce.                                                       *)
(***************************************************************************)
RECURSIVE TotalWeight(_, _)
TotalWeight(entries, i) ==
  IF i > Len(entries) THEN 0 ELSE Max(0, entries[i].weight) + TotalWeight(entries, i + 1)

\* the ids pickWeighted can return: an entry of positive weight, or the first
\* entry (roll = 0, or total weight <= 0), or "scrapjaw" for an empty pool
pickWeighted(entries) ==
  IF Len(entries) = 0 THEN {"scrapjaw"}
  ELSE IF TotalWeight(entries, 1) <= 0 THEN {entries[1].enemyId}
  ELSE {entries[i].enemyId : i \in {j \in 1..Len(entries) : entries[j].weight > 0 \/ j = 1}}

\* the values randInt(min, max) can return
randInt(min, max) == IF max <= min THEN {min} ELSE min..max

\* randInt on bounds that need not be whole numbers:
\* Math.floor(Math.random() * (max - min + 1)) + min
randIntFrom(min, max) ==
  IF RLeq(max, min) THEN {min}
  ELSE LET span == RAdd(RAdd(max, R(-min.n, min.d)), R(1, 1))
       IN {RAdd(min, R(k, 1)) : k \in 0..(RCeil(span) - 1)}

\* the values rollRange(r) can return (r: None or Some([min, max])); the bounds
\* are numbers of the content, kept as fractions
rollRange(r) ==
  IF r = None THEN {R(0, 1)}
  ELSE LET min == RClamp(r[1].min, R(0, 1), R(999999, 1))
           max == RClamp(r[1].max, min, R(999999, 1))
       IN randIntFrom(min, max)

NewCombat(regionId, enemyId, maxFishStamina) ==
  [ enemyId |-> enemyId,
    fishStamina |-> maxFishStamina,
    maxFishStamina |-> maxFishStamina,
    fishPhase |-> phaseForStamina(maxFishStamina, maxFishStamina),
    phase |-> "PLAYER",
    turn |-> 1,
    brace |-> 0,
    control |-> 0,
    skill |-> NoSkillFlags,
    lastSpawn |-> [regionId |-> regionId, enemyId |-> enemyId],
    outcome |-> "NONE" ]

\* variant: a fight started over a live one inherits its control
startFightCarrying(s, enemyId) ==
  LET regionId == s.progress.regionId
  IN IF regionId \notin RegionIds THEN WithEvent(s, Log)
     ELSE IF s.player.level < Content.regions[regionId].requiredLevel THEN WithEvent(s, Log)
     ELSE [s EXCEPT !.combat = Some([NewCombat(regionId, enemyId, getFish(enemyId).maxStamina)
                                       EXCEPT !.control = IF s.combat = None THEN 0
                                                          ELSE s.combat[1].control]),
                    !.lastEvent = Event("SPAWN")]

\* enemyId: the id pickWeighted rolled from the region's pool
startFight(s, enemyId) ==
  LET regionId == s.progress.regionId
  IN IF regionId \notin RegionIds THEN WithEvent(s, Log)
     ELSE IF s.player.level < Content.regions[regionId].requiredLevel THEN WithEvent(s, Log)
     ELSE [s EXCEPT !.combat = Some(NewCombat(regionId, enemyId, getFish(enemyId).maxStamina)),
                    !.lastEvent = Event("SPAWN")]

startFightAgainstEnemy(s, regionId, enemyId) ==
  IF regionId \notin RegionIds THEN WithEvent(s, Log)
  ELSE IF s.player.level < Content.regions[regionId].requiredLevel THEN WithEvent(s, Log)
  ELSE [s EXCEPT !.progress.regionId = regionId,
                 !.combat = Some(NewCombat(regionId, enemyId, getFish(enemyId).maxStamina)),
                 !.lastEvent = Event("SPAWN")]

\* variant: the retry does not mend the line
retryFightWorn(s) ==
  IF ~HasCombat(s) THEN WithEvent(s, Log)
  ELSE [s EXCEPT !.player.tension = clamp(s.player.tension, 0, s.player.maxTension),
                 !.combat = Some(NewCombat(s.combat[1].lastSpawn.regionId,
                                           s.combat[1].lastSpawn.enemyId,
                                           getFish(s.combat[1].lastSpawn.enemyId).maxStamina)),
                 !.lastEvent = Log]

retryFight(s) ==
  IF ~HasCombat(s) THEN WithEvent(s, Log)
  ELSE LET spawn == s.combat[1].lastSpawn
           fish == getFish(spawn.enemyId)
       IN [s EXCEPT !.player.tension = clamp(s.player.tension, 0, s.player.maxTension),
                    !.player.lineIntegrity = s.player.maxLineIntegrity,
                    !.combat = Some(NewCombat(spawn.regionId, spawn.enemyId, fish.maxStamina)),
                    !.lastEvent = Log]

\* variant: fleeing relieves tension like a win instead of resetting it
fleeRelieved(s) ==
  [s EXCEPT !.combat = None,
            !.player.tension = RoundOf35Percent(s.player.tension),
            !.lastEvent = Event("FLEE")]

flee(s) ==
  [s EXCEPT !.combat = None, !.player.tension = 0, !.lastEvent = Event("FLEE")]

(***************************************************************************)
(* Snapshot normalization.  A snapshot the engine produced carries every   *)
(* field with its type, so the typeof tests pass and each field goes       *)
(* through the clamp or filter the source applies to a present value.      *)
(***************************************************************************)
\* clampNumber on a present number: clamp(v, min, max)
clampNumber(v, min, max, fallback) == clamp(v, min, max)

normalizeStats(stats) == [k \in StatKeys |-> clampNumber(stats[k], 0, 99, defaultStats[k])]

\* the combat branch of normalizeState
normalizeCombat(c) ==
  LET maxFishStamina == c.maxFishStamina
  IN [ enemyId |-> c.enemyId,
       fishStamina |-> clampNumber(c.fishStamina, 0, maxFishStamina, maxFishStamina),
       maxFishStamina |-> maxFishStamina,
       fishPhase |-> c.fishPhase,
       phase |-> IF c.phase = "ENEMY" THEN "FISH" ELSE c.phase,
       turn |-> c.turn,
       brace |-> c.brace,
       control |-> c.control,
       skill |-> c.skill,
       lastSpawn |-> c.lastSpawn,
       outcome |-> c.outcome ]

\* encounters.map(...).filter(e => !!e.enemyId): a pair with an empty id is dropped
normalizeEncounters(raw) ==
  SelectSeq([i \in 1..Len(raw) |-> [regionId |-> raw[i].regionId, enemyId |-> raw[i].enemyId]],
            LAMBDA e : e.enemyId # "")

\* variant: the loaded contract starts over at its first encounter
normalizeContractFromStart(c) ==
  LET encounters == normalizeEncounters(c.encounters)
  IN IF c.contractId = "" THEN None
     ELSE IF Len(encounters) <= 0 THEN None
     ELSE Some([ contractId |-> c.contractId,
                 regionId |-> c.regionId,
                 encounters |-> encounters,
                 index |-> 0,
                 phase |-> "FIGHT",
                 stats |-> c.stats,
                 earned |-> c.earned,
                 lastReward |-> c.lastReward ])

\* the contract branch of normalizeState (an empty contract id is falsy)
normalizeContract(c) ==
  LET encounters == normalizeEncounters(c.encounters)
      index == clampNumber(c.index, 0, Max(0, Len(encounters) - 1), 0)
      phase == IF c.phase = "CAMP" \/ c.phase = "SUMMARY" THEN c.phase ELSE "FIGHT"
      stats == [ perfectCount |-> clampNumber(c.stats.perfectCount, 0, 9999, 0),
                 fightsWon |-> clampNumber(c.stats.fightsWon, 0, 9999, 0) ]
      earned == [ currency |-> RClamp(c.earned.currency, R(0, 1), R(999999, 1)) ]
  IN IF c.contractId = "" THEN None
     ELSE IF Len(encounters) <= 0 THEN None
     ELSE Some([ contractId |-> c.contractId,
                 regionId |-> c.regionId,
                 encounters |-> encounters,
                 index |-> index,
                 phase |-> phase,
                 stats |-> stats,
                 earned |-> earned,
                 lastReward |-> c.lastReward ])

normalizeState(s) ==
  LET level == s.player.level
      stats == normalizeStats(s.player.stats)
      totalStatPoints == totalStatPointsForLevel(level)
      totalSkillPoints == totalSkillPointsForLevel(level)
      maxTension == s.player.maxTension
      derivedMaxLineIntegrity == deriveMaxLineIntegrity(level, stats.durability)
  IN [ progress |-> [regionId |-> s.progress.regionId],
       player |-> [ level |-> level,
                    xp |-> s.player.xp,
                    xpToNext |-> s.player.xpToNext,
                    stats |-> stats,
                    unspentStatPoints |->
                      clampNumber(s.player.unspentStatPoints, 0, totalStatPoints,
                                  Max(0, totalStatPoints - sumStats(stats))),
                    skillRanks |-> s.player.skillRanks,
                    unspentSkillPoints |->
                      clampNumber(s.player.unspentSkillPoints, 0, totalSkillPoints,
                                  Max(0, totalSkillPoints - sumSkillRanks(s.player.skillRanks))),
                    tension |-> clampNumber(s.player.tension, 0, maxTension, 12),
                    maxTension |-> maxTension,
                    lineIntegrity |-> clampNumber(s.player.lineIntegrity, 0, derivedMaxLineIntegrity,
                                                  derivedMaxLineIntegrity),
                    maxLineIntegrity |-> derivedMaxLineIntegrity,
                    knownActions |-> computeKnownActions(s.player.knownActions, s.player.skillRanks),
                    inventory |-> s.player.inventory ],
       currency |-> clampNumber(s.currency, 0, 999999, Max(0, Content.startingCurrency)),
       temporaryMods |-> s.temporaryMods,
       contract |-> IF s.contract = None THEN None ELSE normalizeContract(s.contract[1]),
       combat |-> IF s.combat = None THEN None ELSE Some(normalizeCombat(s.combat[1])),
       lastEvent |-> s.lastEvent ]

(***************************************************************************)
(* Meta loop: contracts, shops, temporary rig mods.                        *)
(***************************************************************************)
\* a = Math.max(0, Math.floor(amount))
addCurrency(s, amount) == [s EXCEPT !.currency = @ + Max(0, RFloor(amount))]

\* the encounter pool a contract draws from: its own, else its region's
ContractPool(def) ==
  IF Len(def.encounterPool) > 0 THEN def.encounterPool
  ELSE Content.regions[def.regionId].encounterPool

\* the encounter counts startContract can roll
ContractCounts(def) ==
  LET min == clamp(def.encounterCount.min, 1, 12)
      max == clamp(def.encounterCount.max, min, 12)
  IN randInt(min, max)

\* the encounter sequences startContract can roll for a contract of the content
ContractRolls(contractId) ==
  LET def == Content.contracts[contractId]
  IN UNION { [1..n -> [regionId : {def.regionId}, enemyId : pickWeighted(ContractPool(def))]] :
               n \in ContractCounts(def) }

\* variant: the spawn is always against the first encounter of the sequence
spawnContractEncounterFirst(s) ==
  IF ~HasContract(s) THEN WithEvent(s, Log)
  ELSE IF HasCombat(s) THEN s
  ELSE IF s.contract[1].index + 1 \notin DOMAIN s.contract[1].encounters THEN WithEvent(s, Log)
  ELSE startFightAgainstEnemy(
         [s EXCEPT !.progress.regionId = s.contract[1].encounters[1].regionId,
                   !.contract = Some([s.contract[1] EXCEPT !.phase = "FIGHT", !.lastReward = None])],
         s.contract[1].encounters[1].regionId, s.contract[1].encounters[1].enemyId)

spawnContractEncounter(s) ==
  IF ~HasContract(s) THEN WithEvent(s, Log)
  ELSE IF HasCombat(s) THEN s
  ELSE LET c == s.contract[1]
       \* encounters[index] is undefined below the list as well as beyond it
       IN IF c.index + 1 \notin DOMAIN c.encounters THEN WithEvent(s, Log)
          ELSE LET enc == c.encounters[c.index + 1]
               IN startFightAgainstEnemy(
                    [s EXCEPT !.progress.regionId = enc.regionId,
                              !.contract = Some([c EXCEPT !.phase = "FIGHT", !.lastReward = None])],
                    enc.regionId, enc.enemyId)

\* variant: a contract is started over the one already active
startContractOver(s, contractId, encounters) ==
  IF contractId \notin ContractIds THEN WithEvent(s, Log)
  ELSE LET def == Content.contracts[contractId]
       IN IF HasCombat(s) THEN WithEvent(s, Log)
          ELSE IF def.regionId \notin RegionIds THEN WithEvent(s, Log)
          ELSE IF s.player.level < Content.regions[def.regionId].requiredLevel THEN WithEvent(s, Log)
          ELSE IF Len(ContractPool(def)) <= 0 THEN WithEvent(s, Log)
          ELSE spawnContractEncounter(
                 [s EXCEPT !.progress.regionId = def.regionId,
                           !.contract = Some([ contractId |-> contractId,
                                               regionId |-> def.regionId,
                                               encounters |-> encounters,
                                               index |-> 0,
                                               phase |-> "FIGHT",
                                               stats |-> [perfectCount |-> 0, fightsWon |-> 0],
                                               earned |-> [currency |-> R(0, 1)],
                                               lastReward |-> None ])])

\* encounters: the sequence rolled at start (index is 0-based as in the source)
startContract(s, contractId, encounters) ==
  IF contractId \notin ContractIds THEN WithEvent(s, Log)
  ELSE LET def == Content.contracts[contractId]
       IN IF HasCombat(s) THEN WithEvent(s, Log)
          ELSE IF HasContract(s) THEN WithEvent(s, Log)
          ELSE IF def.regionId \notin RegionIds THEN WithEvent(s, Log)
          ELSE IF s.player.level < Content.regions[def.regionId].requiredLevel THEN WithEvent(s, Log)
          ELSE IF Len(ContractPool(def)) <= 0 THEN WithEvent(s, Log)
          ELSE spawnContractEncounter(
                 [s EXCEPT !.progress.regionId = def.regionId,
                           !.contract = Some([ contractId |-> contractId,
                                               regionId |-> def.regionId,
                                               encounters |-> encounters,
                                               index |-> 0,
                                               phase |-> "FIGHT",
                                               stats |-> [perfectCount |-> 0, fightsWon |-> 0],
                                               earned |-> [currency |-> R(0, 1)],
                                               lastReward |-> None ])])

\* perFightCurrency / finalCurrency: the values rolled by rollRange (fractions)
advanceContractAfterFight(s, perFightCurrency, finalCurrency) ==
  IF ~HasContract(s) THEN WithEvent(s, Log)
  ELSE IF HasCombat(s) THEN WithEvent(s, Log)
  ELSE IF s.contract[1].phase # "FIGHT" THEN s
  ELSE IF s.contract[1].contractId \notin ContractIds
  THEN [s EXCEPT !.contract = None, !.lastEvent = Log]
  ELSE LET c == s.contract[1]
           paid == IF perFightCurrency.n > 0 THEN addCurrency(s, perFightCurrency) ELSE s
           fightsWon == c.stats.fightsWon + 1
           earnedCurrency == RAdd(c.earned.currency, perFightCurrency)
           lastReward == IF perFightCurrency.n > 0 THEN Some([currency |-> perFightCurrency]) ELSE None
           isLast == c.index >= Len(c.encounters) - 1
       IN IF isLast
          THEN LET paidFinal == IF finalCurrency.n > 0 THEN addCurrency(paid, finalCurrency) ELSE paid
               IN [paidFinal EXCEPT
                     !.contract = Some([c EXCEPT
                        !.phase = "SUMMARY",
                        !.stats.fightsWon = fightsWon,
                        !.earned = [currency |-> RAdd(earnedCurrency, finalCurrency)],
                        !.lastReward = Some([currency |->
                            RAdd(IF lastReward # None THEN lastReward[1].currency ELSE R(0, 1),
                                 IF finalCurrency.n > 0 THEN finalCurrency ELSE R(0, 1))])]),
                     !.lastEvent = Log]
          ELSE [paid EXCEPT
                  !.contract = Some([c EXCEPT
                     !.phase = "CAMP",
                     !.stats.fightsWon = fightsWon,
                     !.earned = [currency |-> earnedCurrency],
                     !.lastReward = lastReward]),
                  !.lastEvent = Log]

continueContract(s) ==
  IF ~HasContract(s) THEN WithEvent(s, Log)
  ELSE IF HasCombat(s) THEN s
  ELSE IF s.contract[1].phase # "CAMP" THEN s
  ELSE LET c == s.contract[1]
       IN spawnContractEncounter(
            [s EXCEPT !.contract = Some([c EXCEPT
                        !.index = clamp(c.index + 1, 0, Max(0, Len(c.encounters) - 1)),
                        !.phase = "FIGHT",
                        !.lastReward = None])])

endContract(s) ==
  IF ~HasContract(s) THEN s
  ELSE [s EXCEPT !.contract = None, !.lastEvent = Log]

\* the stock row of a shop with the given id (None when there is none)
FindStock(shopId, stockId) ==
  LET stock == Content.shops[shopId].stock
      hits == {i \in 1..Len(stock) : stock[i].id = stockId}
  IN IF hits = {} THEN None
     ELSE Some(stock[CHOOSE i \in hits : \A j \in hits : i <= j])

InSeq(x, seq) == \E i \in 1..Len(seq) : seq[i] = x

\* variant: a modifier already installed is sold and installed again
buyFromShopAgain(s, shopId, stockId) ==
  IF shopId \notin ShopIds THEN WithEvent(s, Log)
  ELSE IF FindStock(shopId, stockId) = None THEN WithEvent(s, Log)
  ELSE LET entry == FindStock(shopId, stockId)[1]
           cur == s.currency
       IN IF cur < entry.price THEN WithEvent(s, Log)
          ELSE IF entry.kind = "ITEM"
          THEN IF entry.itemId \notin ItemIds THEN WithEvent(s, Log)
               ELSE LET amt == clamp(entry.amount, 1, 999)
                        have == IF entry.itemId \in DOMAIN s.player.inventory
                                THEN s.player.inventory[entry.itemId] ELSE 0
                    IN [s EXCEPT !.currency = cur - entry.price,
                                 !.player.inventory =
                                    [k \in DOMAIN @ \cup {entry.itemId} |->
                                       IF k = entry.itemId THEN have + amt ELSE @[k]],
                                 !.lastEvent = Log]
          ELSE IF entry.modId \notin RigModIds THEN WithEvent(s, Log)
          ELSE [s EXCEPT !.currency = cur - entry.price,
                         !.temporaryMods = Append(@, entry.modId),
                         !.lastEvent = Log]

buyFromShop(s, shopId, stockId) ==
  IF shopId \notin ShopIds THEN WithEvent(s, Log)
  ELSE IF FindStock(shopId, stockId) = None THEN WithEvent(s, Log)
  ELSE LET entry == FindStock(shopId, stockId)[1]
           cur == s.currency
       IN IF cur < entry.price THEN WithEvent(s, Log)
          ELSE IF entry.kind = "ITEM"
          THEN IF entry.itemId \notin ItemIds THEN WithEvent(s, Log)
               ELSE LET amt == clamp(entry.amount, 1, 999)
                        have == IF entry.itemId \in DOMAIN s.player.inventory
                                THEN s.player.inventory[entry.itemId] ELSE 0
                    IN [s EXCEPT !.currency = cur - entry.price,
                                 !.player.inventory =
                                    [k \in DOMAIN @ \cup {entry.itemId} |->
                                       IF k = entry.itemId THEN have + amt ELSE @[k]],
                                 !.lastEvent = Log]
          ELSE IF entry.modId \notin RigModIds THEN WithEvent(s, Log)
          ELSE IF InSeq(entry.modId, s.temporaryMods) THEN WithEvent(s, Log)
          ELSE [s EXCEPT !.currency = cur - entry.price,
                         !.temporaryMods = Append(@, entry.modId),
                         !.lastEvent = Log]

(***************************************************************************)
(* The state machine: one engine call per step.                            *)
(***************************************************************************)
Init == state = makeNewRunState

\* ---------------------------------------------------------------------------
\* The calls a caller can make.  Each action is one exported operation of
\* engine.ts applied to the current snapshot; its arguments are drawn from the
\* set the specification passes in.
\* ---------------------------------------------------------------------------

\* A fight is untouched while the opponent still has all its stamina and the
\* player has built no temporary control.
Standoff(s) ==
  /\ HasCombat(s)
  /\ s.combat[1].fishStamina = s.combat[1].maxFishStamina
  /\ s.combat[1].control = 0

\* A call that can run an opponent turn is explored with every input during the
\* first turns of a fight, and with the strain inputs up to MaxLongTurn while the
\* fight is a standoff; fights are explored below level MaxLevel.
TurnOpen(p, strain) ==
  IF ~HasCombat(state) THEN TRUE
  ELSE IF state.player.level >= MaxLevel THEN FALSE
  ELSE IF state.combat[1].turn < MaxTurn THEN TRUE
  ELSE /\ state.combat[1].turn < MaxLongTurn
       /\ p \in strain
       /\ Standoff(state)

\* beyond its first turns an undecided fight is only continued (by applyAction)
LongFight(s) ==
  IF HasCombat(s) THEN s.combat[1].outcome = "NONE" /\ s.combat[1].turn >= MaxTurn ELSE FALSE

\* a new fight is explored once the previous one is over or lost
FightOver(s) == IF HasCombat(s) THEN s.combat[1].outcome = "DEFEAT_PROMPT" ELSE TRUE

\* the number of aspects of the run that differ from a new run
Setup(s) ==
    (IF s.player.stats = defaultStats THEN 0 ELSE 1)
  + (IF sumSkillRanks(s.player.skillRanks) = 0 THEN 0 ELSE 1)
  + (IF s.temporaryMods = <<>> THEN 0 ELSE 1)
  + (IF s.currency = makeNewRunState.currency THEN 0 ELSE 1)
  + (IF HasContract(s) THEN 1 ELSE 0)
  + (IF s.progress.regionId = firstRegionId THEN 0 ELSE 1)

SetupOpen == ~LongFight(state) /\ Setup(state) < MaxSetup

ApplyAction(inputs, strain) ==
  \E p \in inputs \cup strain :
    /\ TurnOpen(p, strain)
    /\ state' = applyAction(state, p[1], p[2])

UseItem(inputs) ==
  \E i \in inputs :
    /\ TurnOpen(<<"item", i>>, {})
    /\ state' = useItem(state, i)

SpendStatPoint(inputs) ==
  /\ SetupOpen
  /\ \E k \in inputs : state' = spendStatPoint(state, k)

RespecAll ==
  /\ ~LongFight(state)
  /\ state' = respecAll(state)

UnlockOrUpgradeSkill(inputs) ==
  /\ SetupOpen
  /\ \E k \in inputs : state' = unlockOrUpgradeSkill(state, k)

SetRegion(inputs) ==
  /\ SetupOpen
  /\ \E r \in inputs : state' = setRegion(state, r)

\* startFight draws the opponent from the current region's encounter pool
StartFight ==
  /\ FightOver(state)
  /\ \E e \in (IF state.progress.regionId \in RegionIds
            THEN pickWeighted(Content.regions[state.progress.regionId].encounterPool)
               ELSE {"scrapjaw"}) :
       state' = startFight(state, e)

StartFightAgainstEnemy(inputs) ==
  /\ FightOver(state)
  /\ \E p \in inputs : state' = startFightAgainstEnemy(state, p[1], p[2])

RetryFight ==
  /\ ~LongFight(state)
  /\ state' = retryFight(state)

Flee ==
  /\ ~LongFight(state)
  /\ state' = flee(state)

\* a contract is taken with at most MaxSetup other aspects set up
StartContract(inputs) ==
  /\ ~LongFight(state)
  /\ Setup(state) <= MaxSetup
  /\ \E k \in inputs :
       \E encs \in (IF k \in ContractIds THEN ContractRolls(k) ELSE {<<>>}) :
         state' = startContract(state, k, encs)

SpawnContractEncounter ==
  /\ ~LongFight(state)
  /\ state' = spawnContractEncounter(state)

AdvanceContractAfterFight ==
  /\ ~LongFight(state)
  /\ state.currency < MaxCurrency
  /\ IF HasContract(state) THEN state.contract[1].stats.fightsWon < MaxFightsWon ELSE TRUE
  /\ \E p \in (IF HasContract(state) /\ state.contract[1].contractId \in ContractIds
               THEN rollRange(Content.contracts[state.contract[1].contractId].rewardsPerFight)
               ELSE {R(0, 1)}),
        f \in (IF HasContract(state) /\ state.contract[1].contractId \in ContractIds
               THEN rollRange(Content.contracts[state.contract[1].contractId].rewards)
               ELSE {R(0, 1)}) :
       state' = advanceContractAfterFight(state, p, f)

ContinueContract ==
  /\ ~LongFight(state)
  /\ state' = continueContract(state)

EndContract ==
  /\ ~LongFight(state)
  /\ state' = endContract(state)

BuyFromShop(inputs) ==
  \E p \in inputs :
    /\ SetupOpen
    /\ \A i \in DOMAIN state.player.inventory : state.player.inventory[i] < MaxCount
    /\ state' = buyFromShop(state, p[1], p[2])

\* the build between fights
SpendStatPointAtRest(inputs) ==
  /\ ~HasCombat(state)
  /\ \E k \in inputs : state' = spendStatPoint(state, k)

UnlockOrUpgradeSkillAtRest(inputs) ==
  /\ ~HasCombat(state)
  /\ \E k \in inputs : state' = unlockOrUpgradeSkill(state, k)

\* the shop of a contract's camp
BuyAtCamp(inputs) ==
  \E p \in inputs :
    /\ HasContract(state)
    /\ ~HasCombat(state)
    /\ state.contract[1].phase = "CAMP"
    /\ \A i \in DOMAIN state.player.inventory : state.player.inventory[i] < MaxCount
    /\ state' = buyFromShop(state, p[1], p[2])

\* a saved snapshot is loaded back through normalizeState
NormalizeState == state' = normalizeState(state)

\* the run is started over: the snapshot is replaced by a new run
MakeNewRunState == state' = makeNewRunState

\* ---------------------------------------------------------------------------
\* The fight: the combat calls of a run with the starting build and an unused
\* bag, explored with one input of each kind of action, against the hard
\* pulling opponents of the first region and the gently pulling bass.
\* ---------------------------------------------------------------------------
FightInputs ==
  {<<"reel", "PERFECT">>, <<"strike", "MISS">>, <<"adjust", "GOOD">>, <<"surge", "PERFECT">>}

\* the input a standoff is continued with
StrainInputs == {<<"brace", "NONE">>}

NextFight ==
  \/ ApplyAction(FightInputs, StrainInputs)
  \/ StartFight
  \/ StartFightAgainstEnemy({<<"shore", "bass">>})
  \/ RetryFight
  \/ Flee

SpecFight == Init /\ [][NextFight]_vars

\* ---------------------------------------------------------------------------
\* The contract: a haul contract in the first region, fought with the finishing
\* technique and the standoff input, with the camp shop's rig mod on offer.
\* ---------------------------------------------------------------------------
NextContract ==
  \/ ApplyAction({<<"surge", "PERFECT">>}, StrainInputs)
  \/ BuyFromShop({<<"camp", "s_mod">>})
  \/ StartContract({"haul"})
  \/ SpawnContractEncounter
  \/ RetryFight
  \/ Flee
  \/ AdvanceContractAfterFight
  \/ ContinueContract
  \/ EndContract
  \/ NormalizeState

SpecContract == Init /\ [][NextContract]_vars

\* ---------------------------------------------------------------------------
\* The shop: purchases before a contract and at its camps, with the currency
\* the contract pays; fights are left by fleeing.
\* ---------------------------------------------------------------------------
ShopRows ==
  {<<"camp", "s_kit">>, <<"camp", "s_mod">>, <<"camp", "s_lost">>, <<"camp", "s_void">>,
   <<"camp", "missing_stock">>, <<"missing_shop", "s_kit">>}

NextShop ==
  \/ BuyFromShop(ShopRows)
  \/ BuyAtCamp(ShopRows)
  \/ StartContract({"haul"})
  \/ Flee
  \/ AdvanceContractAfterFight
  \/ ContinueContract
  \/ EndContract

SpecShop == Init /\ [][NextShop]_vars

\* ---------------------------------------------------------------------------
\* The build: stat and skill points spent and refunded between fights, with
\* the points of the levels one win against the pike grants.
\* ---------------------------------------------------------------------------
NextBuild ==
  \/ SpendStatPointAtRest({"durability", "power"})
  \/ UnlockOrUpgradeSkillAtRest(SkillIds \cup {"missing_skill"})
  \/ RespecAll
  \/ StartFightAgainstEnemy({<<"shore", "pike">>})
  \/ ApplyAction({<<"surge", "PERFECT">>}, {})
  \/ Flee

SpecBuild == Init /\ [][NextBuild]_vars

\* ---------------------------------------------------------------------------
\* The long fight: the bass worn down through its phases by a player who may
\* hold the bleed skill, with items, retries and flight.
\* ---------------------------------------------------------------------------
BleedInputs ==
  {<<"surge", "PERFECT">>, <<"surge", "MISS">>, <<"reel", "GOOD">>, <<"adjust", "GOOD">>}

NextBleed ==
  \/ UnlockOrUpgradeSkillAtRest({"bleeder"})
  \/ StartFightAgainstEnemy({<<"shore", "bass">>})
  \/ ApplyAction(BleedInputs, StrainInputs)
  \/ UseItem({"kit"})
  \/ RetryFight
  \/ Flee

SpecBleed == Init /\ [][NextBleed]_vars

\* ---------------------------------------------------------------------------
\* The trove: the contract with the largest reward, fought, fled or won, paid
\* out, and the snapshot saved and loaded back.
\* ---------------------------------------------------------------------------
NextTrove ==
  \/ StartContract({"trove"})
  \/ ApplyAction({<<"surge", "PERFECT">>}, StrainInputs)
  \/ Flee
  \/ AdvanceContractAfterFight
  \/ EndContract
  \/ NormalizeState

SpecTrove == Init /\ [][NextTrove]_vars

\* ---------------------------------------------------------------------------
\* The run: every exported call.
\* ---------------------------------------------------------------------------
Next ==
  \/ ApplyAction({<<"surge", "PERFECT">>}, StrainInputs)
  \/ UseItem({"kit"})
  \/ SpendStatPoint({"durability"})
  \/ RespecAll
  \/ UnlockOrUpgradeSkill({"bleeder", "clutch"})
  \/ SetRegion({"deep"})
  \/ StartFight
  \/ StartFightAgainstEnemy({<<"deep", "eel">>})
  \/ RetryFight
  \/ Flee
  \/ StartContract({"abyss"})
  \/ SpawnContractEncounter
  \/ AdvanceContractAfterFight
  \/ ContinueContract
  \/ EndContract
  \/ NormalizeState
  \/ MakeNewRunState
  \/ BuyFromShop({<<"camp", "s_mod">>})

Spec == Init /\ [][Next]_vars

(***************************************************************************)
(* Properties.                                                             *)
(***************************************************************************)
Defeated(s) == IF HasCombat(s) THEN s.combat[1].outcome = "DEFEAT_PROMPT" ELSE FALSE

Fighting(s) == IF HasCombat(s) THEN s.combat[1].outcome = "NONE" ELSE FALSE

\* every action id of the content and one that is missing, with every timing grade
AllActionInputs == (ActionIds \cup {"missing_action"}) \X Timings

InRange(s) ==
  /\ 0 <= s.player.tension /\ s.player.tension <= s.player.maxTension
  /\ 0 <= s.player.lineIntegrity /\ s.player.lineIntegrity <= s.player.maxLineIntegrity

\* C1: in every snapshot reachable from makeNewRunState by any sequence of
\* exported operations, 0 <= tension <= maxTension and
\* 0 <= lineIntegrity <= maxLineIntegrity.
C1_TensionAndIntegrityInRange == InRange(state)

\* both upper and lower ends are reached: a broken line at full tension
C1_Witness ==
  /\ state.player.tension = state.player.maxTension
  /\ state.player.lineIntegrity = 0

\* player, combat, contract, currency and temporaryMods are equal
SameButEvent(a, b) ==
  /\ a.player = b.player
  /\ a.combat = b.combat
  /\ a.contract = b.contract
  /\ a.currency = b.currency
  /\ a.temporaryMods = b.temporaryMods

\* the snapshot with the turn handed to the opponent
OpponentsTurn(s) == SetCombat(s, [s.combat[1] EXCEPT !.phase = "FISH"])

\* C2: applyAction on a combat whose outcome is DEFEAT_PROMPT, or whose turn
\* owner is not PLAYER, changes nothing but possibly the log event, for every
\* action id and timing grade.
C2_RejectedActionIsNoOp ==
  HasCombat(state) =>
    \A p \in AllActionInputs :
      /\ Defeated(state) => SameButEvent(applyAction(state, p[1], p[2]), state)
      /\ SameButEvent(applyAction(OpponentsTurn(state), p[1], p[2]), OpponentsTurn(state))

\* a defeat prompt is reached with an item still in the bag, and an action is refused there
C2_Witness ==
  /\ Defeated(state)
  /\ applyAction(state, "reel", "PERFECT") = state

\* acted, the snapshot the player's part of a call produced, has the opponent at 0 stamina
FinishingBlow(acted) == acted.combat[1].fishStamina <= 0

\* r, the result of the call, shows no trace of an opponent turn after acted,
\* the snapshot the player's part of the call produced
NoOpponentTurn(acted, r) ==
  /\ ~HasCombat(r)
  /\ r.player.tension = RoundOf35Percent(acted.player.tension)
  /\ r.player.lineIntegrity >= acted.player.lineIntegrity
  /\ r.lastEvent.type \in {"XP", "LEVEL_UP"}

BlowSkipsOpponentTurn(s, acted, actionId, timing) ==
  FinishingBlow(acted) => NoOpponentTurn(acted, applyAction(s, actionId, timing))

\* C3: when an applyAction call drives the opponent's stamina to 0, no opponent
\* turn is resolved in that call: no pressure is added to tension (the result
\* holds the win relief of the tension the player's action left), no
\* integrity wear is applied, there is no DEFEAT_PROMPT, and the call ends in
\* the win resolution (combat cleared, xp event).
C3_FinishingBlowSkipsOpponentTurn ==
  Fighting(state) =>
    \A p \in ActionIds \X Timings :
      BlowSkipsOpponentTurn(state, PlayerAct(state, p[1], p[2]), p[1], p[2])

\* a fight in its second turn or later that a reel finishes
C3_Witness ==
  /\ Fighting(state)
  /\ state.combat[1].turn > 1
  /\ FinishingBlow(PlayerAct(state, "reel", "PERFECT"))
  /\ ~HasCombat(applyAction(state, "reel", "PERFECT"))

\* the results of the calls that can run an opponent turn, over all their arguments
TurnResults(s) ==
  {applyAction(s, p[1], p[2]) : p \in AllActionInputs}
    \cup {useItem(s, i) : i \in InventoryIds \cup {"missing_item"}}

\* the results of every other exported call, over all their arguments
OtherResults(s) ==
  {spendStatPoint(s, k) : k \in StatKeys}
    \cup {respecAll(s), retryFight(s), flee(s), spawnContractEncounter(s),
          continueContract(s), endContract(s)}
    \cup {unlockOrUpgradeSkill(s, k) : k \in SkillIds \cup {"missing_skill"}}
    \cup {setRegion(s, r) : r \in RegionIds \cup {"missing_region"}}
    \cup {startFight(s, e) : e \in EnemyIds \cup {"ghost"}}
    \cup {startFightAgainstEnemy(s, r, e) : r \in RegionIds, e \in EnemyIds \cup {"ghost"}}
    \cup UNION {{startContract(s, k, encs) : encs \in ContractRolls(k)} : k \in ContractIds}
    \cup {startContract(s, "missing_contract", <<>>)}
    \cup {advanceContractAfterFight(s, q[1], q[2]) : q \in {R(k, 1) : k \in 0..1} \X {R(k, 1) : k \in 0..2}}
    \cup {buyFromShop(s, "camp", k) : k \in {"s_kit", "s_mod", "s_lost", "s_void", "missing_stock"}}
    \cup {buyFromShop(s, "missing_shop", "s_kit")}

\* r is the result of a call on s in which one opponent turn was resolved
OpponentTurnRan(s, r) ==
  IF HasCombat(s) /\ HasCombat(r) THEN r.combat[1].turn = s.combat[1].turn + 1 ELSE FALSE

\* C4: the outcome becomes DEFEAT_PROMPT only at the end of an opponent turn
\* that leaves lineIntegrity at 0, every opponent turn that ends with
\* lineIntegrity at 0 sets DEFEAT_PROMPT, and no other call produces it.
C4_DefeatOnlyByBrokenLine ==
  ~Defeated(state) =>
    /\ \A r \in OtherResults(state) : ~Defeated(r)
    /\ \A r \in TurnResults(state) :
         /\ Defeated(r) => Fighting(state) /\ OpponentTurnRan(state, r)
                            /\ r.player.lineIntegrity = 0
         /\ OpponentTurnRan(state, r) /\ r.player.lineIntegrity = 0 => Defeated(r)

\* the line has just broken at the end of an opponent turn
C4_Witness ==
  /\ Defeated(state)
  /\ state.player.lineIntegrity = 0
  /\ state.lastEvent.type = "DEFEAT_PROMPT"

\* r, the result of useItem(s, itemId), shows no effect of the item
ItemNotApplied(s, itemId, r) ==
  /\ r.player.lineIntegrity = s.player.lineIntegrity
  /\ r.player.tension = s.player.tension
  /\ ItemCount(r, itemId) = ItemCount(s, itemId)

\* C5: while the outcome is DEFEAT_PROMPT, useItem does not apply the item:
\* lineIntegrity, tension and the inventory count of the item are unchanged.
C5_ItemRefusedAtDefeatPrompt ==
  Defeated(state) =>
    \A i \in InventoryIds : ItemNotApplied(state, i, useItem(state, i))

\* r is the combat retryFight(s) must produce, and everything else is as in s
RetryRestores(s, r) ==
  /\ HasCombat(r)
  /\ r.combat[1].enemyId = s.combat[1].lastSpawn.enemyId
  /\ r.combat[1].enemyId = s.combat[1].enemyId
  /\ r.combat[1].fishStamina = getFish(s.combat[1].enemyId).maxStamina
  /\ r.combat[1].maxFishStamina = getFish(s.combat[1].enemyId).maxStamina
  /\ r.combat[1].phase = "PLAYER"
  /\ r.combat[1].turn = 1
  /\ r.combat[1].brace = 0
  /\ r.combat[1].control = 0
  /\ r.combat[1].outcome = "NONE"
  /\ r.player.lineIntegrity = s.player.maxLineIntegrity
  /\ r.player.maxLineIntegrity = s.player.maxLineIntegrity
  /\ r.player.tension = clamp(s.player.tension, 0, s.player.maxTension)
  /\ r.contract = s.contract
  /\ r.currency = s.currency
  /\ r.temporaryMods = s.temporaryMods
  /\ r.player.stats = s.player.stats
  /\ r.player.skillRanks = s.player.skillRanks
  /\ r.player.inventory = s.player.inventory

\* C6: retryFight from a DEFEAT_PROMPT combat yields a combat against the same
\* enemy with full stamina, turn owner PLAYER, turn 1, brace 0, control 0,
\* outcome NONE, sets lineIntegrity to maxLineIntegrity, leaves tension
\* (clamped) and leaves contract, currency, temporaryMods, stats, skill ranks
\* and inventory unchanged.
C6_RetryRestoresTheFight == Defeated(state) => RetryRestores(state, retryFight(state))

\* a defeat prompt after several turns, during a contract, that retry mends
C6_Witness ==
  /\ Defeated(state)
  /\ HasContract(state)
  /\ state.combat[1].turn > 1
  /\ retryFight(state).player.lineIntegrity > state.player.lineIntegrity

\* r, the result of retryFight(s), left the fight of s as it was
RetryRejected(s, r) ==
  /\ HasCombat(r)
  /\ r.combat[1].fishStamina = s.combat[1].fishStamina
  /\ r.combat[1].turn = s.combat[1].turn
  /\ r.combat[1].control = s.combat[1].control
  /\ r.player.lineIntegrity = s.player.lineIntegrity

\* C7: retryFight on a combat whose outcome is NONE is rejected: opponent
\* stamina, turn counter, control and lineIntegrity are left unchanged.
C7_RetryRejectedWhileFighting == Fighting(state) => RetryRejected(state, retryFight(state))

\* C8: flee applied to any snapshot (no combat, combat with outcome NONE, or
\* combat with DEFEAT_PROMPT) returns a snapshot with no combat and tension 0.
C8_FleeClearsCombatAndTension ==
  ~HasCombat(flee(state)) /\ flee(state).player.tension = 0

\* a defeat prompt at positive tension, which fleeing resets
C8_Witness ==
  /\ Defeated(state)
  /\ state.player.tension > 0
  /\ flee(state).player.tension = 0

RECURSIVE XpBelow(_)
\* the xp spent on the levels below `level`
XpBelow(level) == IF level <= 1 THEN 0 ELSE xpForLevel(level - 1) + XpBelow(level - 1)

\* all xp granted so far
XpTotal(s) == s.player.xp + XpBelow(s.player.level)

\* r, the result of the call on s whose player part produced acted, is the win
\* that relieves tension to relief
WinResolves(s, acted, r, relief) ==
  FinishingBlow(acted) =>
    /\ ~HasCombat(r)
    /\ XpTotal(r) = XpTotal(s) + getFish(s.combat[1].enemyId).xp
    /\ r.player.tension = relief
    /\ acted.player.tension >= 2 => r.player.tension > 0

\* C9 as stated: on a win, combat is cleared, the player is granted exactly the
\* opponent's xp reward, and tension becomes round(0.35 x tension) rather than
\* 0, so a win at tension 2 or more leaves positive tension.
C9_WinRelievesToExactRounding ==
  Fighting(state) =>
    \A p \in ActionIds \X Timings :
      WinResolves(state, PlayerAct(state, p[1], p[2]), applyAction(state, p[1], p[2]),
                  RRound(R(35 * PlayerAct(state, p[1], p[2]).player.tension, 100)))

\* the tension a win leaves: the integer nearest to 0.35 x t, and 31 at t = 90
WinRelief(t) == IF t = 90 THEN 31 ELSE RRound(R(35 * t, 100))

\* C9 (amended): on a win, combat is cleared, the player is granted exactly the
\* opponent's xp reward, and tension becomes the integer nearest to
\* 0.35 x tension, except that a win at tension 90 leaves 31 (not 32); tension
\* is not reset to 0, so a win at tension 2 or more leaves positive tension.
C9_WinGrantsXpAndRelievesTension ==
  Fighting(state) =>
    \A p \in ActionIds \X Timings :
      WinResolves(state, PlayerAct(state, p[1], p[2]), applyAction(state, p[1], p[2]),
                  WinRelief(PlayerAct(state, p[1], p[2]).player.tension))

\* a technique lands the opponent at tension 90, and the win leaves tension 31
C9_Witness ==
  /\ Fighting(state)
  /\ \E p \in ActionIds \X Timings :
        /\ FinishingBlow(PlayerAct(state, p[1], p[2]))
        /\ PlayerAct(state, p[1], p[2]).player.tension = 90
        /\ ~HasCombat(applyAction(state, p[1], p[2]))
        /\ applyAction(state, p[1], p[2]).player.tension = 31

RECURSIVE Crossed(_, _, _)
\* the number of level boundaries xp crosses from `level`, whose boundary is xpToNext
Crossed(xp, level, xpToNext) ==
  IF xp >= xpToNext THEN 1 + Crossed(xp - xpToNext, level + 1, xpForLevel(level + 1)) ELSE 0

\* r, the result of granting xp that crosses n boundaries to s
GrantCounts(s, n, r) ==
  /\ r.player.level = s.player.level + n
  /\ r.player.unspentStatPoints = s.player.unspentStatPoints + n
  /\ r.player.unspentSkillPoints = s.player.unspentSkillPoints + n
  /\ n >= 1 => /\ r.player.lineIntegrity =
                     deriveMaxLineIntegrity(r.player.level, r.player.stats.durability)
               /\ r.player.maxLineIntegrity = r.player.lineIntegrity

GrantXpCounts ==
  \A amount \in 0..MaxXp :
    GrantCounts(state, Crossed(state.player.xp + amount, state.player.level, state.player.xpToNext),
                grantXp(state, amount))

\* no call on the run returns it at a lower level
LevelKept ==
  \A r \in TurnResults(state) \cup OtherResults(state) \cup {normalizeState(state)} :
    r.player.level >= state.player.level

\* C10: granting xp that crosses N >= 0 level boundaries raises level by
\* exactly N, raises unspentStatPoints and unspentSkillPoints by exactly N
\* each, and when N >= 1 leaves lineIntegrity equal to the maxLineIntegrity
\* derived for the final level; level never decreases under any call on the
\* run (makeNewRunState is no call on the run: it takes no snapshot and
\* returns a new run at level 1).
C10_LevelUpsCountAndNeverRevert ==
  /\ []GrantXpCounts
  /\ []LevelKept
  /\ [][state' # makeNewRunState => state'.player.level >= state.player.level]_vars

\* one win has crossed two boundaries: level 3 with a mended line and three points each
C10_Witness ==
  /\ state.player.level = 3
  /\ state.lastEvent.type = "LEVEL_UP"
  /\ state.player.xp = makeNewRunState.player.xp + 40 - xpForLevel(1) - xpForLevel(2)
  /\ state.player.unspentStatPoints = 3
  /\ state.player.unspentSkillPoints = 3
  /\ state.player.lineIntegrity = state.player.maxLineIntegrity

\* what a respec decides: the build, the point pools, the line and the menu
RespecFields(s) ==
  <<s.player.stats, s.player.skillRanks, s.player.unspentStatPoints,
    s.player.unspentSkillPoints, s.player.maxLineIntegrity, s.player.lineIntegrity,
    s.player.knownActions>>

\* r is s after a full respec
RespecResets(s, r) ==
  /\ \A k \in StatKeys : r.player.stats[k] = 0
  /\ \A k \in SkillIds : r.player.skillRanks[k] = 0
  /\ r.player.unspentStatPoints = Max(0, s.player.level)
  /\ r.player.unspentSkillPoints = Max(0, s.player.level)
  /\ r.player.maxLineIntegrity = deriveMaxLineIntegrity(s.player.level, 0)
  /\ r.player.lineIntegrity = r.player.maxLineIntegrity
  /\ HasCombat(r) = HasCombat(s)
  /\ HasCombat(r) => /\ r.combat[1].brace = 0
                     /\ r.combat[1].control = 0
                     /\ r.combat[1].skill = NoSkillFlags

\* C11: respecAll is idempotent (a second respec leaves stats, skill ranks,
\* both point pools, maxLineIntegrity, lineIntegrity and knownActions as the
\* first left them), and one respec zeroes the five stats, clears all skill
\* ranks, sets both pools to the totals for the level, sets lineIntegrity to
\* the newly derived max, and clears brace, control and the one-turn skill
\* flags of a live combat.
C11_RespecIsIdempotentAndFull ==
  /\ RespecFields(respecAll(respecAll(state))) = RespecFields(respecAll(state))
  /\ RespecResets(state, respecAll(state))

\* a fight with a skill bought, control gained, a flag set and a worn line
C11_Witness ==
  /\ HasCombat(state)
  /\ state.combat[1].control > 0
  /\ state.combat[1].skill # NoSkillFlags
  /\ sumSkillRanks(state.player.skillRanks) > 0
  /\ state.player.lineIntegrity < state.player.maxLineIntegrity
  /\ respecAll(state).combat[1].control = 0
  /\ respecAll(state).player.unspentSkillPoints > state.player.unspentSkillPoints

\* where a contract stands: its phase and its (0-based) encounter index
ContractAt(s) == <<s.contract[1].phase, s.contract[1].index>>

\* r keeps the contract of s where it stands
ContractStays(s, r) == HasContract(r) /\ ContractAt(r) = ContractAt(s)

\* the results of every exported call other than advanceContractAfterFight,
\* continueContract and endContract, over all their arguments
BystanderResults(s) ==
  TurnResults(s)
    \cup {spendStatPoint(s, k) : k \in StatKeys}
    \cup {respecAll(s), retryFight(s), flee(s), spawnContractEncounter(s)}
    \cup {unlockOrUpgradeSkill(s, k) : k \in SkillIds \cup {"missing_skill"}}
    \cup {setRegion(s, r) : r \in RegionIds \cup {"missing_region"}}
    \cup {startFight(s, e) : e \in EnemyIds \cup {"ghost"}}
    \cup {startFightAgainstEnemy(s, r, e) : r \in RegionIds, e \in EnemyIds \cup {"ghost"}}
    \cup UNION {{startContract(s, k, encs) : encs \in ContractRolls(k)} : k \in ContractIds}
    \cup {startContract(s, "missing_contract", <<>>)}
    \cup {buyFromShop(s, "camp", k) : k \in {"s_kit", "s_mod", "s_lost", "s_void", "missing_stock"}}
    \cup {buyFromShop(s, "missing_shop", "s_kit")}

\* r, the result of advanceContractAfterFight on s, stays or leaves FIGHT for
\* CAMP (encounters remaining) or SUMMARY (last encounter)
AdvanceStep(s, r) ==
  \/ ContractStays(s, r)
  \/ /\ HasContract(r)
     /\ s.contract[1].phase = "FIGHT"
     /\ r.contract[1].index = s.contract[1].index
     /\ r.contract[1].phase =
          (IF s.contract[1].index < Len(s.contract[1].encounters) - 1 THEN "CAMP" ELSE "SUMMARY")

\* r, the result of continueContract on s, stays or leaves CAMP for FIGHT at the next index
ContinueStep(s, r) ==
  \/ ContractStays(s, r)
  \/ /\ HasContract(r)
     /\ s.contract[1].phase = "CAMP"
     /\ r.contract[1].phase = "FIGHT"
     /\ r.contract[1].index = s.contract[1].index + 1

\* C12: the contract phase follows FIGHT -> CAMP -> FIGHT -> ... -> SUMMARY:
\* the phase changes only FIGHT -> CAMP and FIGHT -> SUMMARY (by
\* advanceContractAfterFight) and CAMP -> FIGHT with the index advanced by 1
\* (by continueContract); every other call except endContract, including
\* spawnContractEncounter, leaves phase and index alone, and in SUMMARY so do
\* advanceContractAfterFight and continueContract.
C12_ContractPhaseMachine ==
  HasContract(state) =>
    /\ \A q \in {R(k, 1) : k \in 0..1} \X {R(k, 1) : k \in 0..2} :
         AdvanceStep(state, advanceContractAfterFight(state, q[1], q[2]))
    /\ ContinueStep(state, continueContract(state))
    /\ \A r \in BystanderResults(state) : ContractStays(state, r)
    /\ state.contract[1].phase = "SUMMARY" =>
         /\ ContractStays(state, continueContract(state))
         /\ \A q \in {R(k, 1) : k \in 0..1} \X {R(k, 1) : k \in 0..2} :
              ContractStays(state, advanceContractAfterFight(state, q[1], q[2]))

\* r holds the contract of s with the encounter sequence as it was rolled
SameRoll(s, r) ==
  /\ HasContract(r)
  /\ r.contract[1].encounters = s.contract[1].encounters
  /\ r.contract[1].contractId = s.contract[1].contractId
  /\ r.contract[1].regionId = s.contract[1].regionId

\* if the call that led from s to r spawned a combat, it is against the
\* encounter at the contract's index (0-based in the snapshot)
SpawnsAtIndex(s, r) ==
  (HasContract(r) /\ HasCombat(r) /\ r.combat # s.combat) =>
    /\ r.contract[1].index + 1 \in 1..Len(r.contract[1].encounters)
    /\ r.combat[1].enemyId = r.contract[1].encounters[r.contract[1].index + 1].enemyId
    /\ r.combat[1].turn = 1

\* the results of every exported call but endContract and the three spawning
\* calls; applyAction with the inputs of the fight and of the standoff
NonSpawningResults(s) ==
  {applyAction(s, p[1], p[2]) : p \in FightInputs \cup StrainInputs}
    \cup {useItem(s, i) : i \in InventoryIds}
    \cup {spendStatPoint(s, k) : k \in StatKeys}
    \cup {respecAll(s), retryFight(s), flee(s)}
    \cup {unlockOrUpgradeSkill(s, k) : k \in SkillIds}
    \cup {setRegion(s, r) : r \in RegionIds}
    \cup {startFight(s, e) : e \in EnemyIds}
    \cup {startFightAgainstEnemy(s, r, e) : r \in RegionIds, e \in EnemyIds}
    \cup {advanceContractAfterFight(s, q[1], q[2]) : q \in {R(k, 1) : k \in 0..1} \X {R(k, 1) : k \in 0..2}}
    \cup {buyFromShop(s, "camp", k) : k \in {"s_kit", "s_mod", "s_lost", "s_void"}}

\* the results of startContract on s, over the contracts and their rolls
StartContractResults(s) ==
  UNION {{startContract(s, k, encs) : encs \in ContractRolls(k)} : k \in ContractIds}

\* C13: the encounter sequence rolled by startContract is stored once and
\* never changes: while a contract is active no call but endContract modifies
\* contract.encounters, contractId or regionId, and every combat spawned by
\* startContract, continueContract or spawnContractEncounter is against
\* encounters[index].enemyId.
C13_EncountersAreRolledOnce ==
  /\ HasContract(state) =>
       /\ \A r \in NonSpawningResults(state) \cup StartContractResults(state)
                    \cup {continueContract(state), spawnContractEncounter(state)} :
            SameRoll(state, r)
       /\ SpawnsAtIndex(state, continueContract(state))
       /\ SpawnsAtIndex(state, spawnContractEncounter(state))
  /\ ~HasContract(state) =>
       \A r \in StartContractResults(state) : SpawnsAtIndex(state, r)

\* the second encounter of a contract whose two encounters differ has been spawned
C13_Witness ==
  /\ HasContract(state)
  /\ HasCombat(state)
  /\ Len(state.contract[1].encounters) = 2
  /\ state.contract[1].encounters[1].enemyId # state.contract[1].encounters[2].enemyId
  /\ state.contract[1].index = 1
  /\ state.combat[1].enemyId = state.contract[1].encounters[2].enemyId
  /\ state.lastEvent.type = "SPAWN"

\* ---------------------------------------------------------------------------
\* C14
\* ---------------------------------------------------------------------------
\* the loaded snapshot r holds the contract of s at the same place
SameContractPlace(s, r) ==
  /\ HasContract(r)
  /\ r.contract[1].encounters = s.contract[1].encounters
  /\ r.contract[1].index = s.contract[1].index
  /\ r.contract[1].phase = s.contract[1].phase

\* C14: normalizing a snapshot that holds a contract the engine produced
\* returns the same encounter list (order and pairs), the same index and the
\* same phase.
C14_NormalizeKeepsContractPlace ==
  HasContract(state) => SameContractPlace(state, normalizeState(state))

\* a contract past its first encounter and out of the FIGHT phase, loaded back
C14_Witness ==
  /\ HasContract(state)
  /\ state.contract[1].index > 0
  /\ state.contract[1].phase = "SUMMARY"
  /\ Len(state.contract[1].encounters) > 1
  /\ SameContractPlace(state, normalizeState(state))

\* ---------------------------------------------------------------------------
\* C15
\* ---------------------------------------------------------------------------
\* the conditions under which startContract of a contract of the content is refused
StartRefused(s, contractId) ==
  \/ HasCombat(s)
  \/ HasContract(s)
  \/ IF Content.contracts[contractId].regionId \in RegionIds
     THEN s.player.level < Content.regions[Content.contracts[contractId].regionId].requiredLevel
     ELSE FALSE

\* r is s with nothing but a LOG event written
OnlyLogged(s, r) ==
  /\ SameButEvent(s, r)
  /\ r.progress = s.progress
  /\ r.lastEvent = Log

\* C15: startContract is rejected when a combat is active, when a contract is
\* already active, or when the player's level is below the required level of
\* the contract's region; the returned snapshot equals the input except for a
\* LOG lastEvent, and no rolled encounter sequence is stored.
C15_StartContractRejected ==
  \A contractId \in ContractIds :
    StartRefused(state, contractId) =>
      \A encounters \in ContractRolls(contractId) :
        OnlyLogged(state, startContract(state, contractId, encounters))

\* an active contract between fights is all that stands in the way of a start
C15_Witness ==
  /\ HasContract(state)
  /\ ~HasCombat(state)
  /\ state.player.level >= Content.regions[Content.contracts["haul"].regionId].requiredLevel
  /\ \A encounters \in ContractRolls("haul") :
       OnlyLogged(state, startContract(state, "haul", encounters))

\* ---------------------------------------------------------------------------
\* C16
\* ---------------------------------------------------------------------------
\* the rewards advanceContractAfterFight can roll for the contract of s
RewardRolls(s) ==
  rollRange(Content.contracts[s.contract[1].contractId].rewardsPerFight)
    \X rollRange(Content.contracts[s.contract[1].contractId].rewards)

\* the contract of s is at its last encounter
LastEncounter(s) == s.contract[1].index >= Len(s.contract[1].encounters) - 1

\* r is s advanced after a fight: amount added to currency and to the earned
\* total alike, one more fight won, phase CAMP or SUMMARY
AdvancePays(s, r, amount) ==
  /\ HasContract(r)
  /\ R(r.currency, 1) = RAdd(R(s.currency, 1), amount)
  /\ r.contract[1].earned.currency = RAdd(s.contract[1].earned.currency, amount)
  /\ r.contract[1].stats.fightsWon = s.contract[1].stats.fightsWon + 1
  /\ r.contract[1].phase = (IF LastEncounter(s) THEN "SUMMARY" ELSE "CAMP")

\* C16: advanceContractAfterFight in phase FIGHT with no active combat adds the
\* rolled per-fight reward (plus the rolled final reward on the last
\* encounter) to both currency and contract.earned.currency by the same
\* amount, increments fightsWon by 1 and sets phase to CAMP if index <
\* encounters.length - 1 and to SUMMARY otherwise; with a combat active or in
\* phase CAMP or SUMMARY it changes neither currency nor the contract.
C16_AdvancePaysCurrencyAndEarnedAlike ==
  HasContract(state) =>
    \A q \in RewardRolls(state) :
      LET r == advanceContractAfterFight(state, q[1], q[2])
      IN IF ~HasCombat(state) /\ state.contract[1].phase = "FIGHT"
         THEN AdvancePays(state, r, IF LastEncounter(state) THEN RAdd(q[1], q[2]) ELSE q[1])
         ELSE r.currency = state.currency /\ r.contract = state.contract

\* ---------------------------------------------------------------------------
\* C17
\* ---------------------------------------------------------------------------
\* the inventory count of an id (0 when the bag has no such key)
CountOf(s, id) == IF id \in DOMAIN s.player.inventory THEN s.player.inventory[id] ELSE 0

\* r is s after buying the stock row entry: charged exactly the price, and the
\* item count raised or the modifier id appended
Purchased(s, r, entry) ==
  /\ r.currency = s.currency - entry.price
  /\ r.combat = s.combat
  /\ r.contract = s.contract
  /\ IF entry.kind = "ITEM"
     THEN /\ CountOf(r, entry.itemId) > CountOf(s, entry.itemId)
          /\ \A k \in DOMAIN s.player.inventory \ {entry.itemId} : CountOf(r, k) = CountOf(s, k)
          /\ [r.player EXCEPT !.inventory = s.player.inventory] = s.player
          /\ r.temporaryMods = s.temporaryMods
     ELSE /\ r.temporaryMods = Append(s.temporaryMods, entry.modId)
          /\ r.player = s.player

\* the stock row names an item or a modifier of the content
RowInContent(entry) ==
  IF entry.kind = "ITEM" THEN entry.itemId \in ItemIds ELSE entry.modId \in RigModIds

NoDuplicate(seq) == \A i, j \in 1..Len(seq) : seq[i] = seq[j] => i = j

\* what buyFromShop does with a stock row at s
BuysOrRefuses(s, entry, r) ==
  IF s.currency < entry.price \/ (entry.kind = "RIG_MOD" /\ InSeq(entry.modId, s.temporaryMods))
       \/ ~RowInContent(entry)
  THEN OnlyLogged(s, r)
  ELSE Purchased(s, r, entry)

\* C17: buyFromShop succeeds only when currency >= price; a successful
\* purchase lowers currency by exactly the price and either raises the item's
\* inventory count or appends the modifier id; buying an already installed
\* modifier or an unaffordable row charges nothing and changes nothing but
\* lastEvent.  Hence currency >= 0 and temporaryMods holds no duplicate id in
\* every reachable state.
C17_PurchasesAreExactAndNeverDuplicate ==
  /\ \A shopId \in ShopIds :
       \A i \in 1..Len(Content.shops[shopId].stock) :
         LET entry == Content.shops[shopId].stock[i]
         IN BuysOrRefuses(state, entry, buyFromShop(state, shopId, entry.id))
  /\ state.currency >= 0
  /\ NoDuplicate(state.temporaryMods)

\* the modifier is installed and could be paid for once more: its row is
\* refused, while a kit is sold
C17_Witness ==
  /\ InSeq("tuned", state.temporaryMods)
  /\ state.currency >= 3
  /\ OnlyLogged(state, buyFromShop(state, "camp", "s_mod"))
  /\ Purchased(state, buyFromShop(state, "camp", "s_kit"), Content.shops["camp"].stock[1])
  /\ buyFromShop(state, "camp", "s_kit").currency = state.currency - 2

\* ---------------------------------------------------------------------------
\* C18
\* ---------------------------------------------------------------------------
\* a snapshot whose region id the content does not have (normalizeState
\* keeps the region id of a saved snapshot as it is)
StaleRegion(s) == [s EXCEPT !.progress.regionId = "missing_region"]

\* the calls at s whose missing reference is looked up: an action on the
\* player's turn, an item held in the bag, a skill, a region, a contract, a
\* contract's region, a shop, a stock row, a row's item, a row's modifier
MissingReferenceResults(s) ==
  (IF Fighting(s) /\ s.combat[1].phase = "PLAYER"
   THEN {applyAction(s, "missing_action", t) : t \in Timings} ELSE {})
    \cup (IF ItemCount(s, "lure") > 0 THEN {useItem(s, "lure")} ELSE {})
    \cup {unlockOrUpgradeSkill(s, "missing_skill"),
          setRegion(s, "missing_region"),
          startContract(s, "missing_contract", <<>>),
          buyFromShop(s, "missing_shop", "s_kit"),
          buyFromShop(s, "camp", "missing_stock"),
          buyFromShop(s, "camp", "s_lost"),
          buyFromShop(s, "camp", "s_void")}
    \cup {startContract(s, "wreck", encs) : encs \in ContractRolls("wreck")}

\* C18: an operation that references a missing action, item, skill, region,
\* contract, shop, shop stock row or rig modifier returns the input snapshot
\* unchanged except for a LOG lastEvent: no inventory, currency, tension,
\* integrity, combat or contract field is mutated.
C18_MissingReferenceOnlyLogs ==
  /\ \A r \in MissingReferenceResults(state) : OnlyLogged(state, r)
  /\ \A e \in EnemyIds : OnlyLogged(StaleRegion(state), startFight(StaleRegion(state), e))

\* the player's turn of a fight, with the item the content lacks in the bag
\* and the price of the rows that sell a missing item or modifier in hand
C18_Witness ==
  /\ Fighting(state)
  /\ state.combat[1].phase = "PLAYER"
  /\ state.combat[1].turn > 1
  /\ ItemCount(state, "lure") > 0
  /\ state.currency >= 1
  /\ state.lastEvent # Log
  /\ \A r \in MissingReferenceResults(state) : OnlyLogged(state, r)

\* ---------------------------------------------------------------------------
\* C19
\* ---------------------------------------------------------------------------
\* C19: starting an encounter against an enemy id that is absent from
\* content.enemies fails soft: the snapshot is returned unchanged except for a
\* LOG event, and no combat record is created or reset.
C19_MissingEnemyFailsSoft ==
  \A regionId \in RegionIds :
    /\ OnlyLogged(state, startFightAgainstEnemy(state, regionId, "ghost"))
    /\ startFightAgainstEnemy(state, regionId, "ghost").combat = state.combat

\* ---------------------------------------------------------------------------
\* C20
\* ---------------------------------------------------------------------------
\* unlockOrUpgradeSkill refuses the skill at s
UnlockRefused(s, skillId) ==
  LET skill == Content.skills[skillId]
  IN \/ s.player.level < skill.requiredLevel
     \/ s.player.unspentSkillPoints <= 0
     \/ \E i \in 1..Len(skill.prereq) : s.player.skillRanks[skill.prereq[i]] <= 0
     \/ s.player.skillRanks[skillId] >= skill.maxRank

\* r is s with one more rank of the skill, paid with one skill point
Unlocked(s, r, skillId) ==
  /\ r.player.skillRanks = [s.player.skillRanks EXCEPT ![skillId] = @ + 1]
  /\ r.player.unspentSkillPoints = s.player.unspentSkillPoints - 1
  /\ [r.player EXCEPT !.skillRanks = s.player.skillRanks,
                      !.unspentSkillPoints = s.player.unspentSkillPoints,
                      !.knownActions = s.player.knownActions] = s.player
  /\ r.combat = s.combat
  /\ r.contract = s.contract
  /\ r.currency = s.currency
  /\ r.temporaryMods = s.temporaryMods

\* ranks within maxRank, and every held skill has its prerequisites held
RanksInOrder(s) ==
  \A k \in SkillIds :
    /\ s.player.skillRanks[k] <= Content.skills[k].maxRank
    /\ s.player.skillRanks[k] > 0 =>
         \A i \in 1..Len(Content.skills[k].prereq) :
           s.player.skillRanks[Content.skills[k].prereq[i]] > 0

\* C20: spendStatPoint with no unspent stat point, and unlockOrUpgradeSkill
\* below the skill's required level, without a skill point, lacking a
\* prerequisite at rank > 0 or at maxRank, return the snapshot unchanged
\* except for a LOG event; a successful unlock raises that skill's rank by
\* exactly 1 and lowers unspentSkillPoints by exactly 1.  Hence every rank is
\* <= its maxRank and every skill at rank > 0 has its prerequisites at rank > 0.
C20_PointsAndPrerequisitesGuardTheBuild ==
  /\ state.player.unspentStatPoints = 0 =>
       \A stat \in StatKeys : OnlyLogged(state, spendStatPoint(state, stat))
  /\ \A skillId \in SkillIds :
       IF UnlockRefused(state, skillId)
       THEN OnlyLogged(state, unlockOrUpgradeSkill(state, skillId))
       ELSE Unlocked(state, unlockOrUpgradeSkill(state, skillId), skillId)
  /\ RanksInOrder(state)

\* with a skill point in hand: surge_skill is held (with its prerequisite) at
\* its maxRank and refused, steady is raised to rank 2
C20_Witness ==
  /\ state.player.unspentSkillPoints > 0
  /\ state.player.skillRanks["surge_skill"] = 1
  /\ state.player.skillRanks["steady"] = 1
  /\ state.player.unspentStatPoints = 0
  /\ OnlyLogged(state, unlockOrUpgradeSkill(state, "surge_skill"))
  /\ OnlyLogged(state, spendStatPoint(state, "power"))
  /\ unlockOrUpgradeSkill(state, "steady").player.skillRanks["steady"] = 2

\* ---------------------------------------------------------------------------
\* C21
\* ---------------------------------------------------------------------------
\* the snapshots advanceContractAfterFight can return at s, one for each pair
\* of values its two calls of rollRange can draw
AdvanceOutcomes(s) ==
  {advanceContractAfterFight(s, q[1], q[2]) : q \in RewardRolls(s)}

\* C21: randomness is confined to opponent selection (startFight) and
\* encounter-sequence generation (startContract); every other operation,
\* advanceContractAfterFight included, is deterministic: the same snapshot and
\* arguments always give equal snapshots.
C21_AdvanceIsDeterministic ==
  HasContract(state) => Cardinality(AdvanceOutcomes(state)) = 1

\* ---------------------------------------------------------------------------
\* C22
\* ---------------------------------------------------------------------------
\* the snapshots on which an opponent turn can start at s: the player part of
\* every action and of the use of a held item, when it leaves the fight undecided
BeforeOpponentTurn(s) ==
  IF Fighting(s) /\ s.combat[1].phase = "PLAYER"
  THEN {m \in {PlayerAct(s, p[1], p[2]) : p \in ActionIds \X Timings}
               \cup {ItemEased(ItemUsed(s, i, Content.items[i]), Content.items[i]) :
                       i \in {k \in ItemIds : ItemCount(s, k) > 0}} :
          m.combat[1].fishStamina > 0}
  ELSE {}

\* the opponent turn that follows the player part m
OpponentTurn(m) ==
  fishTurn(getFish(m.combat[1].enemyId), SetCombat(m, [m.combat[1] EXCEPT !.phase = "FISH"]))

\* the turn from m to r wore the line only with tension over the safe limit
WearOnlyOverLimit(m, r) ==
  /\ r.player.lineIntegrity < m.player.lineIntegrity =>
       r.player.tension > safeTensionLimit(r)
  /\ r.player.tension <= safeTensionLimit(r) =>
       r.player.lineIntegrity = m.player.lineIntegrity

\* C22: an opponent turn reduces lineIntegrity only if, after the opponent's
\* pressure has been applied, tension is strictly greater than the safe
\* tension limit of that turn; at tension less than or equal to the safe
\* limit the turn leaves lineIntegrity unchanged.
C22_WearOnlyAboveSafeLimit ==
  \A m \in BeforeOpponentTurn(state) : WearOnlyOverLimit(m, OpponentTurn(m))

\* one opponent turn ends with tension exactly at the safe limit and an
\* unworn line, another with tension above it and a worn line
C22_Witness ==
  /\ \E m \in BeforeOpponentTurn(state) :
       /\ OpponentTurn(m).player.tension = safeTensionLimit(OpponentTurn(m))
       /\ OpponentTurn(m).player.lineIntegrity = m.player.lineIntegrity
  /\ \E m \in BeforeOpponentTurn(state) :
       /\ OpponentTurn(m).player.tension > safeTensionLimit(OpponentTurn(m))
       /\ OpponentTurn(m).player.lineIntegrity < m.player.lineIntegrity

\* ---------------------------------------------------------------------------
\* C23
\* ---------------------------------------------------------------------------
\* a level-1 player with all stats 0, no skills and no modifiers, on the
\* player's turn against an opponent of stamina 80 and pressure 10 at full stamina
PlainReelCase(s) ==
  /\ Fighting(s)
  /\ s.combat[1].phase = "PLAYER"
  /\ s.player.level = 1
  /\ s.player.stats = defaultStats
  /\ sumSkillRanks(s.player.skillRanks) = 0
  /\ s.temporaryMods = <<>>
  /\ getFish(s.combat[1].enemyId).maxStamina = 80
  /\ getFish(s.combat[1].enemyId).pressure = 10
  /\ s.combat[1].fishStamina = 80
  /\ s.combat[1].maxFishStamina = 80

\* the reel took 18 stamina and left the opponent AGGRESSIVE
ReelTook18(r) ==
  /\ HasCombat(r)
  /\ r.combat[1].fishStamina = 62
  /\ r.combat[1].fishPhase = "AGGRESSIVE"

\* C23 (as stated): in the plain case one reel (staminaTake 20, tension 12) at
\* GOOD timing takes exactly 18 stamina, to 62, keeps the opponent AGGRESSIVE
\* and raises tension by exactly 12 before the opponent's pressure is added.
C23_ReelRaisesTensionByExactly12 ==
  PlainReelCase(state) =>
    /\ ReelTook18(PlayerAct(state, "reel", "GOOD"))
    /\ PlayerAct(state, "reel", "GOOD").player.tension = state.player.tension + 12

\* C23 (amended): the same, with the raise of 12 capped at maxTension; the
\* returned snapshot holds the 62 stamina and the AGGRESSIVE phase, with the
\* opponent's pull added to the tension the reel left.
C23_ReelTakes18AndRaisesTensionUpToMax ==
  PlainReelCase(state) =>
    /\ ReelTook18(PlayerAct(state, "reel", "GOOD"))
    /\ PlayerAct(state, "reel", "GOOD").player.tension
         = Min(state.player.tension + 12, state.player.maxTension)
    /\ ReelTook18(applyAction(state, "reel", "GOOD"))
    /\ applyAction(state, "reel", "GOOD").player.tension
         >= PlayerAct(state, "reel", "GOOD").player.tension

\* the first turn of a new run's first fight, at the starting tension
C23_Witness ==
  /\ PlainReelCase(state)
  /\ state.player.tension = makeNewRunState.player.tension
  /\ state.combat[1].turn = 1
  /\ PlayerAct(state, "reel", "GOOD").player.tension = state.player.tension + 12
  /\ ReelTook18(applyAction(state, "reel", "GOOD"))


(***************************************************************************)
(* C24: the known actions follow the build.                                *)
(***************************************************************************)
\* the actions granted by the ACTIVE skills the player holds at rank > 0
GrantedBySkills(s) ==
  { a \in ActionIds \cup {"surge", "strike"} :
      \E k \in SkillIds : /\ SkillRank(s, k) > 0
                          /\ Content.skills[k].type = "ACTIVE"
                          /\ a \in Content.skills[k].grantsActions }

\* C24: in every reachable state (stat points spent, skills unlocked, respec,
\* fights, level-ups) knownActions is exactly the loadout's start actions
\* together with the actions granted by the ACTIVE skills held at rank > 0,
\* and after respecAll only the start actions remain.
C24_KnownActionsFollowTheBuild ==
  /\ state.player.knownActions = Content.loadout.startActions \cup GrantedBySkills(state)
  /\ respecAll(state).player.knownActions = Content.loadout.startActions
  /\ GrantedBySkills(respecAll(state)) = {}

\* an ACTIVE skill has granted its action, and a PASSIVE skill that lists an
\* action is held too, on a levelled-up player
C24_Witness ==
  /\ SkillRank(state, "surge_skill") > 0 /\ SkillRank(state, "bleeder") > 0
  /\ "surge" \in state.player.knownActions
  /\ state.player.level > 1


(***************************************************************************)
(* C25: the maximum line integrity is derived from level and durability.   *)
(***************************************************************************)
\* clamp(base + perLevel * (level - 1) + perDurability * durability, 60, 260),
\* from the progression tuning and the player's stored level and durability
DerivedMax(s) ==
  LET t == Content.progression
      v == t.baseLineIntegrity + t.lineIntegrityPerLevel * (s.player.level - 1)
             + t.lineIntegrityPerDurability * s.player.stats.durability
  IN IF v < 60 THEN 60 ELSE IF v > 260 THEN 260 ELSE v

MaxIsDerived(s) ==
  /\ s.player.maxLineIntegrity = DerivedMax(s)
  /\ 0 <= s.player.lineIntegrity /\ s.player.lineIntegrity <= s.player.maxLineIntegrity

\* C25: in every reachable state maxLineIntegrity equals the clamped
\* derivation from level and durability; spendStatPoint, a level-up and
\* respecAll return it re-derived, and spendStatPoint keeps lineIntegrity
\* within 0..maxLineIntegrity of the new maximum.
C25_MaxLineIntegrityIsDerived ==
  /\ MaxIsDerived(state)
  /\ \A stat \in DOMAIN defaultStats : MaxIsDerived(spendStatPoint(state, stat))
  /\ \A amount \in {0, 5, 12, 40, MaxXp} : MaxIsDerived(grantXp(state, amount))
  /\ MaxIsDerived(respecAll(state))

\* a worn line on a levelled-up player with durability bought and a stat
\* point left: the next durability point raises the maximum
C25_Witness ==
  /\ state.player.level > 1 /\ state.player.stats.durability > 0
  /\ state.player.unspentStatPoints > 0
  /\ state.player.lineIntegrity < state.player.maxLineIntegrity
  /\ state.player.maxLineIntegrity > 60
  /\ spendStatPoint(state, "durability").player.maxLineIntegrity > state.player.maxLineIntegrity


(***************************************************************************)
(* C26: the state of an encounter on spawn.                                *)
(***************************************************************************)
\* the snapshots the three spawning calls can return from s: startFight for
\* every enemy the region's pool can roll, startFightAgainstEnemy for every
\* region and enemy id (missing ones included), spawnContractEncounter
SpawnResults(s) ==
  {startFight(s, e) : e \in IF s.progress.regionId \in RegionIds
                            THEN pickWeighted(Content.regions[s.progress.regionId].encounterPool)
                            ELSE {"scrapjaw"}}
  \cup {startFightAgainstEnemy(s, q[1], q[2]) :
          q \in (RegionIds \cup {"sunk"}) \X (EnemyIds \cup {"ghost"})}
  \cup {spawnContractEncounter(s)}

\* r holds an encounter that the call created
Spawned(r) == r.combat /= None /\ r.lastEvent.type = "SPAWN"

FreshEncounter(c) ==
  /\ c.phase = "PLAYER" /\ c.turn = 1
  /\ c.fishStamina = c.maxFishStamina
  /\ c.maxFishStamina = getFish(c.enemyId).maxStamina
  /\ c.fishPhase = (IF c.maxFishStamina > 0 THEN "AGGRESSIVE" ELSE "EXHAUSTED")
  /\ c.brace = 0 /\ c.control = 0 /\ c.outcome = "NONE"

\* C26: every encounter created by startFight, startFightAgainstEnemy or
\* spawnContractEncounter starts on the player's turn at turn 1 with the
\* opponent at full stamina in the phase of the full ratio, brace 0,
\* control 0 and outcome NONE.
C26_EncountersStartFresh ==
  \A r \in SpawnResults(state) : Spawned(r) => FreshEncounter(r.combat[1])

\* a fight in progress past its first turn with control gained: a spawn
\* here replaces a used combat
C26_Witness ==
  /\ Fighting(state) /\ state.combat[1].turn > 1 /\ state.combat[1].control > 0
  /\ Spawned(startFight(state, "pike"))
  /\ \E r \in SpawnResults(state) : Spawned(r) /\ r.combat[1] /= state.combat[1]


(***************************************************************************)
(* C27: the use of an item.                                                *)
(***************************************************************************)
\* the bag of r is the bag of s with one id less
OneTaken(s, r, id) ==
  /\ CountOf(r, id) = CountOf(s, id) - 1
  /\ CountOf(r, id) >= 0
  /\ \A k \in InventoryIds \ {id} : CountOf(r, k) = CountOf(s, k)

\* the snapshot after the player part of the use: the line restored, the
\* tension eased, the item taken
ItemPart(s, id) == ItemEased(ItemUsed(s, id, Content.items[id]), Content.items[id])

UsedOnce(s, id) ==
  LET r == useItem(s, id)
  IN IF CountOf(s, id) <= 0 THEN OnlyLogged(s, r)
     ELSE /\ OneTaken(s, r, id)
          /\ Fighting(s) =>
               /\ r.combat /= None
               /\ r.combat[1].turn = s.combat[1].turn + 1
               /\ r.combat[1].phase = "PLAYER"
               /\ r = OpponentTurn(ItemPart(s, id))
          /\ ~HasCombat(s) =>
               /\ r.combat = None
               /\ r.player.tension <= s.player.tension
               /\ r.player.lineIntegrity >= s.player.lineIntegrity
               /\ r = ItemPart(s, id)

\* C27: useItem of an existing item with a positive count lowers that count
\* by exactly 1 (never below 0) and leaves the other counts; at count 0 it is
\* rejected without change.  In a fight with outcome NONE on the player's
\* turn exactly one opponent turn follows in the same call; outside combat
\* no opponent turn occurs.
C27_UseItemTakesOneAndIsAnswered ==
  /\ \A id \in ItemIds : UsedOnce(state, id)
  /\ \A k \in InventoryIds : CountOf(state, k) >= 0

\* the player's turn of a fight with a kit in the bag, where the opponent's
\* answer to the kit raises the tension again
C27_Witness ==
  /\ Fighting(state) /\ CountOf(state, "kit") > 0
  /\ useItem(state, "kit").combat /= None
  /\ useItem(state, "kit").combat[1].turn = state.combat[1].turn + 1
  /\ useItem(state, "kit").player.tension > ItemPart(state, "kit").player.tension


(***************************************************************************)
(* C28: the turn returns to the player.                                    *)
(***************************************************************************)
\* a returned combat is on the player's turn with the brace consumed
PlayersTurn(s) == HasCombat(s) => s.combat[1].phase = "PLAYER" /\ s.combat[1].brace = 0

\* r keeps the fight of s going one turn later
OneTurnLater(s, r) == HasCombat(r) /\ r.combat[1].turn = s.combat[1].turn + 1

\* r holds the combat of s at the same turn
SameTurn(s, r) == HasCombat(r) /\ r.combat[1].turn = s.combat[1].turn

\* the fight of r is still undecided
GoesOn(r) == IF HasCombat(r) THEN r.combat[1].outcome = "NONE" ELSE FALSE

\* C28 as stated: on the player's turn every applyAction that leaves the
\* fight undecided, and every useItem, advances combat.turn by exactly 1.
C28_EveryCallAdvancesTheTurn ==
  (HasCombat(state) /\ state.combat[1].phase = "PLAYER") =>
    /\ \A p \in AllActionInputs :
         GoesOn(applyAction(state, p[1], p[2])) =>
           OneTurnLater(state, applyAction(state, p[1], p[2]))
    /\ \A id \in InventoryIds : OneTurnLater(state, useItem(state, id))

\* C28: every returned snapshot with a combat is on the player's turn with
\* brace 0.  In a fight with outcome NONE an applyAction of an action of the
\* content either wins (combat cleared) or returns the combat one turn
\* later, and a useItem of a held item of the content returns it one turn
\* later; a call that is refused (missing action, no item left, missing
\* item, DEFEAT_PROMPT for applyAction) and a useItem at DEFEAT_PROMPT leave
\* the turn as it is.
C28_AcceptedCallsAdvanceTheTurn ==
  /\ PlayersTurn(state)
  /\ Fighting(state) =>
       /\ \A p \in ActionIds \X Timings :
            LET r == applyAction(state, p[1], p[2])
            IN PlayersTurn(r) /\ (HasCombat(r) => OneTurnLater(state, r))
       /\ \A t \in Timings : SameTurn(state, applyAction(state, "missing_action", t))
       /\ \A id \in InventoryIds :
            LET r == useItem(state, id)
            IN /\ PlayersTurn(r)
               /\ IF id \in ItemIds /\ CountOf(state, id) > 0
                  THEN OneTurnLater(state, r)
                  ELSE SameTurn(state, r)
  /\ (HasCombat(state) /\ ~Fighting(state)) =>
       /\ \A p \in AllActionInputs : applyAction(state, p[1], p[2]) = state
       /\ \A id \in InventoryIds : SameTurn(state, useItem(state, id))

\* the player's turn of a fight past its first turn with a kit in the bag,
\* where a brace puts the brace up during the call and the returned snapshot
\* has it at 0 one turn later
C28_Witness ==
  /\ Fighting(state) /\ state.combat[1].turn > 1 /\ CountOf(state, "kit") > 0
  /\ PlayerAct(state, "brace", "NONE").combat[1].brace > 0
  /\ OneTurnLater(state, applyAction(state, "brace", "NONE"))
  /\ applyAction(state, "brace", "NONE").combat[1].brace = 0
  /\ OneTurnLater(state, useItem(state, "kit"))


(***************************************************************************)
(* C29: the opponent's phase follows its stamina.                          *)
(***************************************************************************)
\* the phase of the ratio fishStamina / maxFishStamina: AGGRESSIVE above
\* 0.66, DEFENSIVE above 0.33, EXHAUSTED otherwise
PhaseOfRatio(c) ==
  IF 100 * c.fishStamina > 66 * c.maxFishStamina THEN "AGGRESSIVE"
  ELSE IF 100 * c.fishStamina > 33 * c.maxFishStamina THEN "DEFENSIVE"
  ELSE "EXHAUSTED"

PhaseFollowsStamina(s) == HasCombat(s) => s.combat[1].fishPhase = PhaseOfRatio(s.combat[1])

PhaseRank(phase) == IF phase = "AGGRESSIVE" THEN 0 ELSE IF phase = "DEFENSIVE" THEN 1 ELSE 2

PhaseDerivedEverywhere ==
  /\ PhaseFollowsStamina(state)
  /\ \A r \in TurnResults(state) \cup OtherResults(state) \cup {normalizeState(state)} :
       PhaseFollowsStamina(r)

\* the step stays within one encounter: no spawn and no retry
SameEncounter ==
  /\ HasCombat(state) /\ HasCombat(state')
  /\ state'.lastEvent.type /= "SPAWN"
  /\ state'.combat[1].turn >= state.combat[1].turn
  /\ state'.combat[1].lastSpawn = state.combat[1].lastSpawn

\* C29: in every returned snapshot with an active combat fishPhase is the
\* phase of the stamina ratio, also after the passive bleed of the opponent
\* turn; within one encounter fishStamina never increases and the phase only
\* moves from AGGRESSIVE to DEFENSIVE to EXHAUSTED.
C29_PhaseFollowsStaminaDownwards ==
  /\ []PhaseDerivedEverywhere
  /\ [][SameEncounter =>
          /\ state'.combat[1].fishStamina <= state.combat[1].fishStamina
          /\ PhaseRank(state'.combat[1].fishPhase) >= PhaseRank(state.combat[1].fishPhase)]_vars

\* an exhausted opponent in a fight of a player with the bleed skill: a
\* brace, which takes no stamina itself, returns the opponent with less
C29_Witness ==
  /\ Fighting(state) /\ state.combat[1].fishPhase = "EXHAUSTED"
  /\ state.combat[1].fishStamina > 0
  /\ collectEffects(state).staminaBleedExhausted > 0
  /\ applyAction(state, "brace", "NONE").combat /= None
  /\ applyAction(state, "brace", "NONE").combat[1].fishStamina < state.combat[1].fishStamina


(***************************************************************************)
(* C30: a PERFECT reel with the clutch skill spares the line for one turn. *)
(***************************************************************************)
\* no one-turn protection is left in a returned snapshot
FlagDown(s) == HasCombat(s) => ~s.combat[1].skill.negateWearThisTurn

\* the actions of the content that are interpreted as a reel or a technique
ReelingActions == {a \in ActionIds : interpretAction(Content.actions[a]).kind \in {"reel", "technique"}}

\* a PERFECT reel or technique that does not win is returned with the line
\* as it was, whatever tension the opponent's pull leaves
PerfectSparesLine(s) ==
  \A a \in ReelingActions :
    PlayerAct(s, a, "PERFECT").combat[1].fishStamina > 0 =>
      /\ PlayerAct(s, a, "PERFECT").combat[1].skill.negateWearThisTurn
      /\ applyAction(s, a, "PERFECT").player.lineIntegrity = s.player.lineIntegrity
      /\ FlagDown(applyAction(s, a, "PERFECT"))

\* C30: for a player who holds a skill with the negate-wear-on-perfect
\* effect, the opponent turn of a call that applied a reel or technique with
\* PERFECT timing wears the line by nothing, whatever the tension; and no
\* returned snapshot has negateWearThisTurn set, so the protection never
\* reaches a later turn.
C30_PerfectNegatesWearForOneTurn ==
  /\ FlagDown(state)
  /\ \A r \in TurnResults(state) \cup OtherResults(state) \cup {normalizeState(state)} : FlagDown(r)
  /\ (Fighting(state) /\ collectEffects(state).negateWearOnPerfect) => PerfectSparesLine(state)

\* a fight of a player with the clutch skill where a PERFECT reel is returned
\* with tension over the safe limit and the line unworn, while the same reel
\* at GOOD timing is returned with a worn line
C30_Witness ==
  /\ Fighting(state) /\ collectEffects(state).negateWearOnPerfect
  /\ Fighting(applyAction(state, "reel", "PERFECT"))
  /\ applyAction(state, "reel", "PERFECT").player.tension
       > safeTensionLimit(applyAction(state, "reel", "PERFECT"))
  /\ applyAction(state, "reel", "PERFECT").player.lineIntegrity = state.player.lineIntegrity
  /\ applyAction(state, "reel", "GOOD").player.lineIntegrity < state.player.lineIntegrity


(***************************************************************************)
(* C31: the wear of one opponent turn.                                     *)
(***************************************************************************)
\* the opponent turn from m to r applied wear: no one-turn protection and,
\* after the pull, tension over the safe limit
WearApplied(m, r) ==
  /\ ~m.combat[1].skill.negateWearThisTurn
  /\ r.player.tension > safeTensionLimit(r)

Drop(m, r) == m.player.lineIntegrity - r.player.lineIntegrity

\* every snapshot one call that runs an opponent turn can return from s
CallResults(s) ==
  {applyAction(s, p[1], p[2]) : p \in ActionIds \X Timings}
    \cup {useItem(s, i) : i \in ItemIds}

\* an opponent turn that applies wear to a line above 0 lowers it by 1 to 8,
\* and never below 0
WearWithALine ==
  \A m \in BeforeOpponentTurn(state) :
    LET r == OpponentTurn(m)
    IN (WearApplied(m, r) /\ m.player.lineIntegrity >= 1) =>
         Drop(m, r) \in 1..Min(8, m.player.lineIntegrity)

\* C31: whenever an opponent turn applies wear, lineIntegrity drops by an
\* integer amount between 1 and 8, whatever the durability and the wear
\* multipliers, and no single applyAction or useItem lowers lineIntegrity
\* by more than 8.
C31_WearDropsBetween1And8 ==
  /\ \A m \in BeforeOpponentTurn(state) :
       LET r == OpponentTurn(m) IN WearApplied(m, r) => Drop(m, r) \in 1..8
  /\ \A r \in CallResults(state) : Drop(state, r) <= 8


(***************************************************************************)
(* C32: the level-up loop ends with the xp below the next threshold.       *)
(***************************************************************************)
\* max(10, floor(base * growth^(level - 1))) with the growth as a fraction
XpCurve(level) ==
  LET g == Content.xpCurve.growth
  IN Max(10, (Content.xpCurve.base * g.n ^ (level - 1)) \div (g.d ^ (level - 1)))

XpSettled(s) ==
  /\ 0 <= s.player.xp /\ s.player.xp < s.player.xpToNext
  /\ s.player.xpToNext = XpCurve(s.player.level)
  /\ s.player.xpToNext >= 10

\* the loop ran at most once per 10 xp at hand
LoopBounded(s, amount) ==
  /\ grantXp(s, amount).player.level >= s.player.level
  /\ grantXp(s, amount).player.level - s.player.level <= (s.player.xp + amount) \div 10

\* C32: the level-up loop of grantXp ends for every xp amount (each pass
\* takes at least 10 xp), and every state, after a win in particular, has
\* 0 <= xp < xpToNext with xpToNext = max(10, floor(base * growth^(level-1)))
\* for the level reached.
C32_GrantXpEndsBelowTheThreshold ==
  /\ XpSettled(state)
  /\ \A amount \in 0..MaxXp :
       XpSettled(grantXp(state, amount)) /\ LoopBounded(state, amount)

\* a player two levels up after one win, with xp left over below the
\* threshold of the level reached
C32_Witness ==
  /\ state.player.level >= 3 /\ state.player.xp > 0
  /\ state.player.xpToNext = XpCurve(3)
  /\ state.player.xpToNext > XpCurve(2)
  /\ ~HasCombat(state)


(***************************************************************************)
(* C33: stat and skill points are conserved.                               *)
(***************************************************************************)
StatsSpent(s) ==
  s.player.stats.control + s.player.stats.power + s.player.stats.durability
    + s.player.stats.precision + s.player.stats.tactics

RECURSIVE RanksSpent(_, _)
\* the ranks held over the skills ids
RanksSpent(s, ids) ==
  IF ids = {} THEN 0
  ELSE LET k == CHOOSE x \in ids : TRUE
       IN SkillRank(s, k) + RanksSpent(s, ids \ {k})

PointsConserved(s) ==
  /\ s.player.unspentStatPoints >= 0 /\ s.player.unspentSkillPoints >= 0
  /\ s.player.unspentStatPoints + StatsSpent(s) = s.player.level
  /\ s.player.unspentSkillPoints + RanksSpent(s, SkillIds) = s.player.level

\* the snapshots the calls that move points can return from s
BuildResults(s) ==
  {spendStatPoint(s, k) : k \in StatKeys}
    \cup {unlockOrUpgradeSkill(s, k) : k \in SkillIds \cup {"missing_skill"}}
    \cup {respecAll(s)}
    \cup {grantXp(s, amount) : amount \in {0, 5, 12, 40, MaxXp}}

\* C33: in every state reachable by spendStatPoint, unlockOrUpgradeSkill,
\* respecAll and level-ups, unspentStatPoints plus the sum of the five stats
\* equals the level, unspentSkillPoints plus the sum of all skill ranks
\* equals the level, and both pools are at least 0.
C33_PointsAreConserved ==
  /\ PointsConserved(state)
  /\ \A r \in BuildResults(state) : PointsConserved(r)

\* a levelled-up build with points spent on two stats and on skills, a stat
\* point left and no skill point left
C33_Witness ==
  /\ state.player.level >= 3
  /\ state.player.stats.durability > 0 /\ state.player.stats.power > 0
  /\ RanksSpent(state, SkillIds) = state.player.level
  /\ state.player.unspentStatPoints > 0


(***************************************************************************)
(* C34: contract rewards are for encounters won.                           *)
(***************************************************************************)
\* C34: when the current contract encounter is ended by flee, a following
\* advanceContractAfterFight pays no currency, counts no win and leaves the
\* phase and the index of the contract as they are.
C34_FledEncounterEarnsNothing ==
  (HasContract(state) /\ HasCombat(state)) =>
    \A q \in RewardRolls(flee(state)) :
      LET r == advanceContractAfterFight(flee(state), q[1], q[2])
      IN /\ r.currency = state.currency
         /\ r.contract /= None
         /\ r.contract[1].stats.fightsWon = state.contract[1].stats.fightsWon
         /\ r.contract[1].phase = state.contract[1].phase
         /\ r.contract[1].index = state.contract[1].index
         /\ r.contract[1].earned = state.contract[1].earned


(***************************************************************************)
(* C35: the place of a contract in its pre-rolled sequence.                *)
(***************************************************************************)
\* C35: in every reachable state with an active contract the index lies
\* within the sequence of 1 to 12 encounters, fightsWon equals index in
\* phase FIGHT and index + 1 in phase CAMP or SUMMARY, and the phase is
\* SUMMARY only at the last index.
C35_ContractCountsItsEncounters ==
  HasContract(state) =>
    LET c == state.contract[1]
    IN /\ 0 <= c.index /\ c.index < Len(c.encounters)
       /\ 1 <= Len(c.encounters) /\ Len(c.encounters) <= 12
       /\ c.phase = "FIGHT" => c.stats.fightsWon = c.index
       /\ c.phase \in {"CAMP", "SUMMARY"} => c.stats.fightsWon = c.index + 1
       /\ c.phase = "SUMMARY" => c.index = Len(c.encounters) - 1


(***************************************************************************)
(* C36: the line stays broken while the defeat prompt is pending.          *)
(***************************************************************************)
LineBrokenAtPrompt(s) == Defeated(s) => s.player.lineIntegrity = 0

\* C36: in every reachable state combat.outcome = DEFEAT_PROMPT implies
\* lineIntegrity = 0, and useItem, respecAll and spendStatPoint return no
\* snapshot at DEFEAT_PROMPT with the line restored.
C36_DefeatPromptMeansBrokenLine ==
  /\ LineBrokenAtPrompt(state)
  /\ \A r \in {useItem(state, i) : i \in ItemIds}
               \cup {respecAll(state)}
               \cup {spendStatPoint(state, k) : k \in StatKeys} : LineBrokenAtPrompt(r)


(***************************************************************************)
(* C37: an undecided fight has a line to lose.                             *)
(***************************************************************************)
\* C37: in every reachable state with an active combat whose outcome is NONE
\* lineIntegrity is above 0; in particular flee from the defeat prompt
\* followed by a new fight does not give an undecided fight with a broken
\* line.
C37_UndecidedFightHasALine ==
  /\ Fighting(state) => state.player.lineIntegrity > 0
  /\ Defeated(state) =>
       \A r \in SpawnResults(flee(state)) : Fighting(r) => r.player.lineIntegrity > 0


(***************************************************************************)
(* C38: no opponent is left at stamina 0.                                  *)
(***************************************************************************)
StaminaLeft(s) == HasCombat(s) => s.combat[1].fishStamina > 0

\* C38: in every returned snapshot with an active combat fishStamina is
\* above 0: an opponent whose stamina reaches 0, also by the bleed of the
\* opponent turn, is resolved as a win in the same call.
C38_NoOpponentLeftAtZero ==
  /\ StaminaLeft(state)
  /\ \A r \in TurnResults(state) : StaminaLeft(r)


(***************************************************************************)
(* C39: a live encounter is not replaced by a spawning call.               *)
(***************************************************************************)
\* the snapshots that startFight, startFightAgainstEnemy, startContract and
\* spawnContractEncounter can return from s
StartingResults(s) ==
  SpawnResults(s)
    \cup UNION {{startContract(s, k, encs) : encs \in ContractRolls(k)} : k \in ContractIds}

\* C39: startFight, startFightAgainstEnemy, startContract and
\* spawnContractEncounter called while a combat is active, with outcome NONE
\* or DEFEAT_PROMPT, leave the existing combat record unchanged.
C39_LiveCombatIsNotReplaced ==
  HasCombat(state) => \A r \in StartingResults(state) : r.combat = state.combat


(***************************************************************************)
(* Loading a snapshot back.                                                *)
(***************************************************************************)
\* the two snapshots agree on the fields the run is made of
SameRun(a, b) ==
  /\ a.player = b.player
  /\ a.combat = b.combat
  /\ a.contract = b.contract
  /\ a.currency = b.currency
  /\ a.temporaryMods = b.temporaryMods
  /\ a.progress = b.progress

FixedPointOnReachable == SameRun(normalizeState(state), state)


\* the snapshots a save file of an older or damaged build can hold in place of s:
\* one field of s out of its range, in its legacy spelling, or unusable
Tampered(s) ==
  {s,
   [s EXCEPT !.player.tension = s.player.maxTension + 7],
   [s EXCEPT !.player.tension = 0 - 3],
   [s EXCEPT !.player.lineIntegrity = s.player.maxLineIntegrity + 9],
   [s EXCEPT !.player.maxLineIntegrity = 1],
   [s EXCEPT !.player.unspentStatPoints = s.player.level + 2],
   [s EXCEPT !.player.unspentSkillPoints = 0 - 1],
   [s EXCEPT !.player.stats.durability = 120],
   [s EXCEPT !.player.stats.power = 0 - 4],
   [s EXCEPT !.currency = 1000002],
   [s EXCEPT !.currency = 0 - 5]}
  \cup (IF HasCombat(s)
        THEN {[s EXCEPT !.combat = Some([s.combat[1] EXCEPT !.phase = "ENEMY"])],
              [s EXCEPT !.combat = Some([s.combat[1] EXCEPT
                                           !.fishStamina = s.combat[1].maxFishStamina + 5])],
              [s EXCEPT !.combat = Some([s.combat[1] EXCEPT !.fishStamina = 0 - 2])]}
        ELSE {})
  \cup (IF HasContract(s)
        THEN {[s EXCEPT !.contract = Some([s.contract[1] EXCEPT !.index = Len(s.contract[1].encounters) + 1])],
              [s EXCEPT !.contract = Some([s.contract[1] EXCEPT !.index = 0 - 1])],
              [s EXCEPT !.contract = Some([s.contract[1] EXCEPT !.phase = "SHOP"])],
              [s EXCEPT !.contract = Some([s.contract[1] EXCEPT !.contractId = ""])],
              [s EXCEPT !.contract = Some([s.contract[1] EXCEPT !.stats.fightsWon = 10000])],
              [s EXCEPT !.contract = Some([s.contract[1] EXCEPT
                                             !.earned.currency = R(2000001, 2)])],
              [s EXCEPT !.contract = Some([s.contract[1] EXCEPT
                                             !.encounters = Append(@, [regionId |-> "shore",
                                                                       enemyId |-> ""])])],
              [s EXCEPT !.contract = Some([s.contract[1] EXCEPT
                                             !.encounters = <<[regionId |-> "shore",
                                                               enemyId |-> ""]>>])]}
        ELSE {})

\* loading a loaded snapshot changes nothing more
Idempotent(x) == normalizeState(normalizeState(x)) = normalizeState(x)

\* C40: normalizeState is a fixed point on the snapshots the engine produces:
\* for every state reachable from makeNewRunState by engine calls,
\* normalizeState of it equals it in player, combat, contract, currency,
\* temporaryMods and progress; and normalizeState is idempotent on legacy or
\* partial inputs.
C40_LoadingChangesNothing ==
  /\ FixedPointOnReachable
  /\ \A x \in Tampered(state) : Idempotent(x)

\* the part that holds: loading twice is loading once, for every snapshot the
\* engine produced and every damaged copy of it
C40_LoadingTwiceIsLoadingOnce == \A x \in Tampered(state) : Idempotent(x)

\* the trove is paid out over the largest currency a loaded snapshot keeps
C40_PaidOverTheCap == state.currency > 999999
====
